---- MODULE Spec2Model ----
(***************************************************************************)
(* Certificate verifier (Roopiee/CAFS_final): the /verify orchestrator of  *)
(* backend/app/main.py and the three cascades it runs -- ForensicsAgent    *)
(* (forensics.py), ExtractionAgent (ext.py) and the verification cascade   *)
(* (verification/service.py, sources.py, scanner.py, visual.py, and the    *)
(* two historical VerificationAgent variants).                             *)
(*                                                                         *)
(* Conventions.                                                            *)
(*  - A Python float score s is the integer s * Scale (fixed point, four   *)
(*    decimals); every input is drawn on the 0.01 grid, on which the       *)
(*    weighted sums of the code are exact.                                 *)
(*  - Optional[T] is a sequence: None is <<>>, a value v is <<v>>.         *)
(*  - Python str is a TLA+ string; TLC evaluates Len, \o, SubSeq on them.  *)
(*  - pc is the position of the one request (or direct call) in flight;    *)
(*    entry names the function the run was started at.                     *)
(***************************************************************************)
EXTENDS Integers, Sequences, FiniteSets, TLC

VARIABLES
    entry,            \* function the run enters: verify_certificate, analyze, ...
    pc,               \* position of the call in flight
    \* ---- ForensicsAgent.analyze (forensics.py)
    llm_enabled,      \* self.llm_enabled
    ela_stats,        \* Optional: the block statistics _perform_ela computed
    ela_score, noise_score, quality_score,   \* Optional scores (locals of analyze)
    combined_score,   \* Optional
    llm_response,     \* Optional: what ollama.generate did in this call (its kind)
    llm_result,       \* Optional dict returned by _analyze_with_llm
    llm_risk_score, llm_confidence,          \* Optional
    is_high_risk,     \* Optional BOOLEAN (unset before line 84)
    fault,            \* Optional: exception caught by analyze's except clause
    forensics_data,   \* Optional ForensicsResult returned by analyze
    llm_calls,        \* number of ollama.generate calls made by this analyze call
    analyze_returns,  \* number of ForensicsResult objects analyze has returned
    \* ---- TrustedSourceRegistry (verification/sources.py)
    trusted_domains,  \* self.trusted_domains
    org_map,          \* self.org_map, as a set of <<organization, url>> pairs
    use_playwright,   \* self.use_playwright of a VerificationAgent
    trust_url,        \* argument of a direct is_trusted call
    trust_result,     \* Optional BOOLEAN it returned
    \* ---- _fetch_playwright (verification/scanner.py)
    sessions,         \* number of launched browsers not yet shut down
    browser_fault,    \* Optional: where the last rendering fetch raised
    name_fetched,     \* some fetch of this call obtained a text with the name in it
    similarities,     \* the scores of the match attempts this call has made
    url_calls,        \* the collaborator calls made for the URL of the current attempt
    \* ---- direct calls of a helper function
    call_args,        \* the arguments of the call
    call_results,     \* what the calls made so far returned, in order
    \* ---- VerificationService.verify (verification/service.py)
    data,             \* Optional ExtractionResult passed to verify
    urls,             \* candidate list of line 37
    url_idx,          \* 1-based position of the loop of line 49 (0 before it)
    best_score,       \* line 46
    page_text,        \* Optional text last fetched (text of scanner.py line 30
                      \* while fetch_page_text runs, page_text of verify after)
    screenshot_path,  \* Optional path last returned by fetch_page_text
    fetch_ret,        \* statement a running fetch_page_text returns to
    verification_result,   \* Optional VerificationResult returned
    fetched,          \* URLs handed to _fetch_httpx or _fetch_playwright so far
    httpx_calls, playwright_calls, ocr_calls,  \* collaborator calls of this verify
    name_matched,     \* a match of the candidate name was accepted in this call
    \* ---- ExtractionAgent.extract (ext.py) and verify_certificate (main.py)
    file,             \* the upload: content type and what its bytes are
    image_bytes,      \* Optional: what the bytes handed to the agents are
    raw_text,         \* OCR text gathered so far
    llm_content,      \* Optional content of the Mistral reply
    extraction_data,  \* Optional dict built by extract
    raised,           \* Optional exception in flight
    response,         \* Optional outcome of the request
    tesseract_calls, easyocr_calls, qr_calls, mistral_calls,  \* collaborator calls
    ocr_passes,       \* the image_to_string calls of _ocr_task: image and config
    elapsed,          \* seconds this extract call has spent in its collaborators
    easyocr_reader,   \* self.easyocr_reader: "None", "Reader" or "False"
    \* ---- calls running at the same time on one agent
    tasks,            \* the position and locals of each of them
    reader_inits,     \* number of easyocr.Reader(...) constructions started
    reader_assigned,  \* the values assigned to self.easyocr_reader, in order
    now,              \* int(time.time()), counted from the start of the run
    proof_dir         \* the files of proofs/: the page each screenshot file shows

forensicsVars == <<llm_enabled, ela_stats, ela_score, noise_score, quality_score,
                   combined_score,
                   llm_response, llm_result, llm_risk_score, llm_confidence, is_high_risk, fault,
                   forensics_data, llm_calls, analyze_returns>>

registryVars == <<trusted_domains, org_map, use_playwright>>
trustVars == <<trust_url, trust_result>>

verifyVars == <<data, urls, url_idx, best_score, page_text, screenshot_path, fetch_ret,
                verification_result, fetched, httpx_calls, playwright_calls,
                ocr_calls, name_matched>>

\* the locals of an extract call, and the field of the agent it may set
extractLocals == <<raw_text, llm_content, extraction_data, raised,
                   tesseract_calls, ocr_passes, easyocr_calls, qr_calls, mistral_calls, elapsed>>
extractVars == <<extractLocals, easyocr_reader>>
requestVars == <<file, image_bytes, response>>
\* the browser sessions of _fetch_playwright and the fault its try block caught
browserVars == <<sessions, browser_fault>>
\* what the fetches and match attempts of a verify call have observed
observedVars == <<name_fetched, similarities, url_calls>>
scannerVars == <<browserVars, observedVars>>
callVars == <<call_args, call_results>>
proofVars == <<now, proof_dir>>
taskVars == <<tasks, reader_inits, reader_assigned, proofVars>>

vars == <<entry, pc, forensicsVars, registryVars, trustVars, verifyVars,
          extractVars, requestVars, scannerVars, callVars, taskVars>>

\* everything but pc and the variables of ForensicsAgent
nonForensicsVars == <<entry, registryVars, trustVars, verifyVars,
                      extractVars, requestVars, scannerVars, callVars, taskVars>>
\* everything but pc and the variables of VerificationService.verify
nonVerifyVars == <<entry, forensicsVars, registryVars, trustVars,
                   extractVars, requestVars, scannerVars, callVars, taskVars>>
\* everything but pc, the variables of verify and those of the scanner
nonScannerVars == <<entry, forensicsVars, registryVars, trustVars,
                    extractVars, requestVars, callVars, taskVars>>
\* everything but pc and the variables of a direct helper call
nonCallVars == <<entry, forensicsVars, registryVars, trustVars, verifyVars,
                 extractVars, requestVars, scannerVars, taskVars>>
\* everything but pc and the variables of ExtractionAgent.extract
nonExtractVars == <<entry, forensicsVars, registryVars, trustVars, verifyVars,
                    requestVars, scannerVars, callVars, taskVars>>
\* everything but the reader handle and what the concurrent calls hold
nonTaskVars == <<entry, pc, forensicsVars, registryVars, trustVars, verifyVars,
                 extractLocals, requestVars, scannerVars, callVars>>
nonReaderVars == <<nonTaskVars, proofVars>>
nonProofVars == <<nonTaskVars, easyocr_reader, reader_inits, reader_assigned>>

----------------------------------------------------------------------------
(* Optional values and fixed-point arithmetic                              *)

None == <<>>
Some(v) == <<v>>
IsSome(o) == o # <<>>
Val(o) == o[1]

Scale == 100 * 100
Min(a, b) == IF a <= b THEN a ELSE b
Max(a, b) == IF a >= b THEN a ELSE b
\* x / d for a fixed-point x and a fixed-point divisor d
FDiv(x, d) == (x * Scale) \div d
\* x * (p / 100) for a weight written in hundredths
Weighted(x, p) == (x * p) \div 100

\* Python round(x, 2): nearest multiple of 0.01, ties to the even hundredth
Round2(x) ==
    LET step == Scale \div 100
        q == x \div step
        r == x % step
    IN  IF 2 * r < step THEN q * step
        ELSE IF 2 * r > step THEN (q + 1) * step
        ELSE IF q % 2 = 0 THEN q * step ELSE (q + 1) * step

\* a score written in hundredths (0.95 is Fx(95), 4.0 is Fx(400))
Fx(h) == h * (Scale \div 100)

----------------------------------------------------------------------------
(* Python str methods used by the agents                                   *)

\* Longest host, in dot-separated labels, that the trust gate is tried on
MaxHostLabels == 3

CharAt(s, i) == SubSeq(s, i, i)
StartsWith(s, p) == Len(p) <= Len(s) /\ SubSeq(s, 1, Len(p)) = p
EndsWith(s, p) == Len(p) <= Len(s) /\ SubSeq(s, Len(s) - Len(p) + 1, Len(s)) = p
\* s[i:] for a 0-based i
From(s, i) == SubSeq(s, i + 1, Len(s))
\* s.find(sub): 0-based index of the first occurrence, -1 if there is none
Find(s, sub) ==
    LET hits == {i \in 0..(Len(s) - Len(sub)) : SubSeq(s, i + 1, i + Len(sub)) = sub}
    IN  IF hits = {} THEN 0 - 1 ELSE CHOOSE i \in hits : \A j \in hits : i <= j
\* sub in s
Contains(s, sub) == Find(s, sub) >= 0

\* s.replace(old, new): every non-overlapping occurrence, left to right
RECURSIVE Replace(_, _, _)
Replace(s, old, new) ==
    LET i == Find(s, old)
    IN  IF i < 0 THEN s
        ELSE SubSeq(s, 1, i) \o new \o Replace(From(s, i + Len(old)), old, new)

UpperChars == "ABCDEFGHIJKLMNOPQRSTUVWXYZ"
LowerChars == "abcdefghijklmnopqrstuvwxyz"
Digits == "0123456789"
\* the characters of s, as a set
CharSet(s) == {CharAt(s, i) : i \in 1..Len(s)}
Letters == CharSet(LowerChars \o UpperChars)
DigitSet == CharSet(Digits)
LowerOf == [c \in CharSet(UpperChars) |-> CharAt(LowerChars, Find(UpperChars, c) + 1)]
LowerChar(c) == IF c \in DOMAIN LowerOf THEN LowerOf[c] ELSE c
\* "".join(parts[lo..hi]) for a sequence of strings, by halving
RECURSIVE Concat(_, _, _)
Concat(parts, lo, hi) ==
    IF lo > hi THEN ""
    ELSE IF lo = hi THEN parts[lo]
    ELSE LET mid == (lo + hi) \div 2
         IN  Concat(parts, lo, mid) \o Concat(parts, mid + 1, hi)
Cat(parts) == Concat(parts, 1, Len(parts))
\* s.lower()
Lower(s) == Cat([i \in 1..Len(s) |-> LowerChar(CharAt(s, i))])

Whitespace == {" ", "\t", "\n", "\r"}
IsDigit(c) == c \in DigitSet
\* s.isdigit() and s.isalnum() (false for the empty string)
IsDigitStr(s) == s # "" /\ \A i \in 1..Len(s) : IsDigit(CharAt(s, i))
IsAlnum(s) ==
    s # "" /\ \A i \in 1..Len(s) :
                 CharAt(s, i) \in Letters \cup DigitSet
\* s.strip()
RECURSIVE LStrip(_)
LStrip(s) ==
    IF s # "" /\ CharAt(s, 1) \in Whitespace THEN LStrip(From(s, 1)) ELSE s
RECURSIVE RStrip(_)
RStrip(s) ==
    IF s # "" /\ CharAt(s, Len(s)) \in Whitespace
    THEN RStrip(SubSeq(s, 1, Len(s) - 1)) ELSE s
Strip(s) == RStrip(LStrip(s))
\* s.split(): the whitespace-separated words
Split(s) ==
    LET IsSpace(i) == CharAt(s, i) \in Whitespace
        starts == {i \in 1..Len(s) : ~IsSpace(i) /\ (i = 1 \/ IsSpace(i - 1))}
        EndOf(i) == CHOOSE j \in i..Len(s) :
                        /\ \A k \in i..j : ~IsSpace(k)
                        /\ (j = Len(s) \/ IsSpace(j + 1))
        Start(k) == CHOOSE i \in starts : Cardinality({j \in starts : j < i}) = k - 1
    IN  [k \in 1..Cardinality(starts) |-> SubSeq(s, Start(k), EndOf(Start(k)))]
\* sep.join(words)
Join(words, sep) ==
    Cat([i \in 1..Len(words) |-> IF i = 1 THEN words[1] ELSE sep \o words[i]])

\* urllib.parse.urlparse(url).netloc: the text between "//" (after an optional
\* scheme) and the next "/", "?" or "#"; urlsplit raises ValueError when exactly
\* one of "[" and "]" occurs in it
SchemeChars == Letters \cup DigitSet \cup {"+", "-", "."}
IsScheme(t) ==
    /\ t # "" /\ CharAt(t, 1) \in Letters
    /\ \A i \in 1..Len(t) : CharAt(t, i) \in SchemeChars
AfterScheme(url) ==
    LET i == Find(url, ":")
    IN  IF i > 0 /\ IsScheme(SubSeq(url, 1, i)) THEN From(url, i + 1) ELSE url
Netloc(url) ==
    LET rest == AfterScheme(url)
    IN  IF ~StartsWith(rest, "//") THEN ""
        ELSE LET r == From(rest, 2)
                 ends == {i \in 0..(Len(r) - 1) :
                             CharAt(r, i + 1) \in {"/", "?", "#"}}
                 e == IF ends = {} THEN Len(r)
                      ELSE CHOOSE i \in ends : \A j \in ends : i <= j
             IN  SubSeq(r, 1, e)
NetlocRaises(url) ==
    Contains(Netloc(url), "[") # Contains(Netloc(url), "]")
\* urlparse(url).path: from the end of the netloc to the next "?" or "#"
UrlPath(url) ==
    LET rest == AfterScheme(url)
        r == IF StartsWith(rest, "//") THEN From(rest, 2 + Len(Netloc(url)))
             ELSE rest
        ends == {i \in 0..(Len(r) - 1) : CharAt(r, i + 1) \in {"?", "#"}}
        e == IF ends = {} THEN Len(r)
             ELSE CHOOSE i \in ends : \A j \in ends : i <= j
    IN  SubSeq(r, 1, e)

----------------------------------------------------------------------------
(* Collaborator calls and their timeouts                                   *)

\* The collaborators whose call is made under a timeout: asyncio.wait_for around
\* Tesseract (ext.py 321-325), EasyOCR (365-368) and Mistral (501-512);
\* httpx.AsyncClient(timeout=10.0) (scanner.py 50); page.goto and
\* wait_for_load_state (scanner.py 73, 79). cv2's QR detector (ext.py 85-86),
\* ollama.generate (forensics.py 186-193) and pytesseract on the screenshot
\* (visual.py 36) are called without one.
TimedCollaborators == {"tesseract", "easyocr", "mistral", "httpx", "playwright"}
HasTimeout(collaborator) == collaborator \in TimedCollaborators

\* the position of a call waiting on a collaborator that never returns
BlockedIn(collaborator) == "blocked_in_" \o collaborator
Blocked == pc \in {BlockedIn(c) : c \in {"qr_scan", "ollama", "screenshot_ocr"}}

----------------------------------------------------------------------------
(* TrustedSourceRegistry (verification/sources.py)                         *)

\* lines 47-51: the domains trusted without any CSV
DefaultTrustedDomains ==
    {"ude.my", "udemy.com", "coursera.org", "edx.org", "credentials.edx.org",
     "linkedin.com", "google.com", "skillshop.exceedlms.com", "credly.com"}

\* Rows (Organization Name, Verification URL) the CSV of config.CSV_PATH may hold;
\* the file is not part of the sources, so a registry is built from any subset
\* of these, or from none when the file cannot be read (lines 71-73).
CsvRows ==
    {<<"Acme Academy", "verify.acme.test/check">>,
     <<"Udemy", "https://www.udemy.com/certificate/">>}

\* a row whose organization is also a platform of URL_PATTERNS
PlatformRows == {<<"Coursera", "https://www.coursera.org/account/accomplishments/verify">>}

\* lines 63-64
WithScheme(url) ==
    IF StartsWith(url, "http://") \/ StartsWith(url, "https://") THEN url
    ELSE "https://" \o url

\* line 66
DomainOf(url) == Replace(Lower(Netloc(url)), "www.", "")

\* _load_sources, lines 44-73, for the CSV rows read
LoadedDomains(rows) ==
    DefaultTrustedDomains \cup {DomainOf(WithScheme(r[2])) : r \in rows}
LoadedOrgMap(rows) == {<<Lower(r[1]), WithScheme(r[2])>> : r \in rows}

\* is_trusted, lines 75-83
is_trusted(url) ==
    IF NetlocRaises(url) THEN FALSE
    ELSE LET domain == DomainOf(url)
         IN  \/ domain \in trusted_domains
             \/ \E trusted \in trusted_domains : EndsWith(domain, "." \o trusted)

\* the two VerificationAgent classes: src/verificationagent.py and
\* src/backend/app/agents/verificationagent.py
AgentVariants == {"root", "backend"}
\* the CSV files a registry is built from
CsvFiles ==
    IF entry = "verify_certificate" THEN {CsvRows}
    ELSE IF entry = "generate_urls" THEN SUBSET (CsvRows \cup PlatformRows)
    ELSE SUBSET CsvRows
InitRegistry ==
    /\ \E rows \in CsvFiles :
          /\ trusted_domains = LoadedDomains(rows)
          /\ org_map = LoadedOrgMap(rows)
    /\ use_playwright \in (IF entry \in AgentVariants THEN BOOLEAN ELSE {TRUE})

\* Hosts the gate is tried on: up to MaxHostLabels labels joined by dots
HostLabels == {"www", "udemy", "com", "evil", "Udemy"}
RECURSIVE Hosts(_)
Hosts(n) ==
    IF n = 1 THEN HostLabels
    ELSE Hosts(n - 1) \cup {h \o "." \o l : h \in Hosts(n - 1), l \in HostLabels}
TrustUrls ==
    {"https://" \o h \o "/certificate/UC-1" : h \in Hosts(MaxHostLabels)}
    \cup {"udemy.com/certificate/UC-1", "https://[udemy.com/x", "https://udemy.com"}

IdleTrust == trust_url = "" /\ trust_result = None
\* no registry takes part in the run
NoRegistry == trusted_domains = {} /\ org_map = {} /\ use_playwright = TRUE

\* A call registry.is_trusted(url)
IsTrustedCall ==
    /\ pc = "is_trusted"
    /\ trust_result' = Some(is_trusted(trust_url))
    /\ pc' = "is_trusted_returned"
    /\ UNCHANGED <<entry, forensicsVars, registryVars, verifyVars, trust_url,
                   extractVars, requestVars, scannerVars, callVars, taskVars>>

----------------------------------------------------------------------------
(* Candidate URLs: URL_PATTERNS and generate_urls (sources.py 7-35, 85-106) *)

\* Python truthiness of an Optional[str]
Truthy(o) == IsSome(o) /\ Val(o) # ""

\* URL_PATTERNS in dict order; a pattern is <<text before {cert_id}, text after>>
URL_PATTERNS ==
    << <<"coursera", << <<"https://www.coursera.org/verify/", "">>,
          <<"https://www.coursera.org/account/accomplishments/certificate/", "">> >> >>,
       <<"udemy", << <<"https://www.udemy.com/certificate/", "">>,
          <<"https://ude.my/", "">> >> >>,
       <<"edx", << <<"https://credentials.edx.org/credentials/", "">> >> >>,
       <<"linkedin", << <<"https://www.linkedin.com/learning/certificates/", "">> >> >>,
       <<"google", << <<"https://skillshop.exceedlms.com/student/award/", "">> >> >>,
       <<"ibm", << <<"https://www.credly.com/badges/", "">>,
          <<"https://www.credly.com/organizations/ibm/badges/", "">> >> >>,
       <<"microsoft", << <<"https://learn.microsoft.com/en-us/users/", "/transcript">> >> >>,
       <<"credly", << <<"https://www.credly.com/badges/", "">> >> >> >>

\* list(dict.fromkeys(urls)), line 106
RECURSIVE Dedup(_)
Dedup(q) ==
    IF q = <<>> THEN <<>>
    ELSE LET rest == Dedup(SubSeq(q, 1, Len(q) - 1))
             last == q[Len(q)]
         IN  IF \E i \in 1..Len(rest) : rest[i] = last THEN rest
             ELSE Append(rest, last)

\* lines 94-97: the URL built from the CSV entry of the organization
CsvUrls(org_lower, cert_id) ==
    IF \E e \in org_map : e[1] = org_lower
    THEN LET base == (CHOOSE e \in org_map : e[1] = org_lower)[2]
         IN  <<IF EndsWith(base, "/") THEN base \o cert_id
               ELSE base \o "/" \o cert_id>>
    ELSE <<>>

\* lines 100-103: the patterns of the first platform named in the organization
PatternUrlsOf(table, org_lower, cert_id) ==
    LET hits == {i \in 1..Len(table) : Contains(org_lower, table[i][1])}
    IN  IF hits = {} THEN <<>>
        ELSE LET first == CHOOSE i \in hits : \A j \in hits : i <= j
                 patterns == table[first][2]
             IN  [k \in 1..Len(patterns) |->
                     patterns[k][1] \o cert_id \o patterns[k][2]]

\* Variant that takes only the first pattern of the platform
FirstPatternOnly(org_lower, cert_id) ==
    LET all == PatternUrlsOf(URL_PATTERNS, org_lower, cert_id)
    IN  IF all = <<>> THEN <<>> ELSE <<all[1]>>

PatternUrls(org_lower, cert_id) == PatternUrlsOf(URL_PATTERNS, org_lower, cert_id)

\* generate_urls, lines 85-106
generate_urls(url, cert_id, org_name) ==
    Dedup((IF Truthy(url) THEN <<Val(url)>> ELSE <<>>)
          \o (IF org_name # "" /\ Truthy(cert_id)
              THEN CsvUrls(Lower(org_name), Val(cert_id))
                   \o PatternUrls(Lower(org_name), Val(cert_id))
              ELSE <<>>))

----------------------------------------------------------------------------
(* Name matching (service.py 23-28, visual.py 22-58)                       *)

\* A fetched page text: body is the text (an excerpt when it is long),
\* length is len(text), and ratio is what difflib.SequenceMatcher(...).ratio()
\* returns for it and the candidate name when the name does not occur in it.
KeptChars == CharSet(LowerChars) \cup DigitSet \cup Whitespace
\* re.sub(r'[^a-z0-9\s]', '', s)
Normalize(s) ==
    Cat([i \in 1..Len(s) |->
            LET c == CharAt(s, i)
            IN  IF c \in KeptChars THEN c ELSE ""])

\* service.py line 28 / line 23: the page-text acceptance threshold
PageThreshold == 7000
\* visual.py line 53: the screenshot-OCR acceptance threshold
OcrThreshold == 6500

\* _fuzzy_match, service.py 23-28: <<is_match, score>>
_fuzzy_match(candidate, text, threshold) ==
    IF candidate = "" \/ text.body = "" THEN <<FALSE, 0>>
    ELSE IF Contains(Normalize(Lower(text.body)), Normalize(Lower(candidate)))
         THEN <<TRUE, Scale>>
         ELSE <<text.ratio >= threshold, text.ratio>>

\* visual.py 48-51: the ratio of the name and its longest fragment found in the
\* text; the fragment is a substring of the name, so the ratio is 2*size/(n+size)
LongestMatchSize(a, b) ==
    LET sizes == {k \in 0..Min(Len(a), Len(b)) :
                     \E i \in 0..(Len(a) - k) : Contains(b, SubSeq(a, i + 1, i + k))}
    IN  CHOOSE k \in sizes : \A j \in sizes : j <= k
FragmentRatio(clean_name, clean_text) ==
    LET size == LongestMatchSize(clean_name, clean_text)
    IN  IF Len(clean_name) + size = 0 THEN Scale
        ELSE (2 * size * Scale) \div (Len(clean_name) + size)

\* Variant of visual.py 53 that accepts any fragment of the name
VerifyScreenshotAnyFragment(image_path, candidate_name, ocr) ==
    IF ~Truthy(image_path) THEN <<FALSE, 0>>
    ELSE IF ocr = None THEN <<FALSE, 0>>
    ELSE LET clean_text == Lower(Val(ocr))
             clean_name == Normalize(Lower(candidate_name))
         IN  IF Contains(clean_text, clean_name) THEN <<TRUE, Scale>>
             ELSE LET ratio == FragmentRatio(clean_name, clean_text)
                  IN  <<ratio > 0, ratio>>

\* verify_screenshot, visual.py 22-58, for what Image.open + image_to_string give:
\* None when either raises (lines 57-58)
verify_screenshot(image_path, candidate_name, ocr) ==
    IF ~Truthy(image_path) THEN <<FALSE, 0>>
    ELSE IF ocr = None THEN <<FALSE, 0>>
    ELSE LET clean_text == Lower(Val(ocr))
             clean_name == Normalize(Lower(candidate_name))
         IN  IF Contains(clean_text, clean_name) THEN <<TRUE, Scale>>
             ELSE LET ratio == FragmentRatio(clean_name, clean_text)
                  IN  <<ratio >= OcrThreshold, ratio>>

----------------------------------------------------------------------------
(* VerificationService.verify (service.py 30-84) and fetch_page_text       *)
(* (scanner.py 20-101), one action per statement or collaborator call      *)

\* line 49: for url in urls[:2]
MaxUrlsTried == 2
\* scanner.py line 31: len(text) > 500
LongTextLength == 500

Names == {"John Doe"}
PageTextsAll ==
    {[body |-> "", length |-> 0, ratio |-> 0],
     [body |-> "Loading...", length |-> 10, ratio |-> 2667],
     [body |-> "Jon Doe", length |-> 7, ratio |-> 9333],
     [body |-> "Awarded to: JOHN DOE.", length |-> 21, ratio |-> 0],
     [body |-> "John Doe has completed...", length |-> 25, ratio |-> 0],
     [body |-> "Certificate of completion: John Doe", length |-> 500, ratio |-> 0],
     [body |-> "Udemy certificate of completion", length |-> 1200, ratio |-> 200],
     [body |-> "This certificate was awarded to John Doe", length |-> 1200, ratio |-> 0]}
PageTextsFew == {t \in PageTextsAll : t.length \in {10, 1200} /\ t.ratio # 200}
PageTexts == IF entry = "verify" THEN PageTextsAll ELSE PageTextsFew
\* what pytesseract reads from a screenshot
OcrTextsAll == {"J0hn Doe", "Access denied", "Awarded to John Doe", "John", ""}
OcrTexts == IF entry = "verify" THEN OcrTextsAll
            ELSE {"Access denied", "Awarded to John Doe"}
ScreenshotPath == "proofs/proof.png"

VerifyResult(verified, trusted, score, url, method, message) ==
    [is_verified |-> verified, trusted_domain |-> trusted,
     confidence_score |-> score, verification_url |-> url,
     method |-> method, message |-> message]

\* no collaborator was called yet for the URL of the attempt
NoUrlCalls == [httpx |-> 0, playwright |-> 0, ocr |-> 0]

\* return a VerificationResult from verify
VerifyReturn(result) ==
    /\ verification_result' = Some(result)
    /\ pc' = "verify_returned"

CandidateName == IF Truthy(Val(data).candidate_name)
                 THEN Val(Val(data).candidate_name) ELSE ""
CurrentUrl == urls[url_idx]

\* Variant that keeps the score of the latest attempt
BestOfLatest(best, score) == score

\* service.py lines 58, 72, 79: if score > best_score: best_score = score
BestOf(best, score) == IF score > best THEN score ELSE best

\* the text of a fetched page has the candidate name in it
HasName(text) == Contains(text.body, CandidateName)

\* lines 32-33
VerifyValidate ==
    /\ pc = "verify"
    /\ IF ~Truthy(Val(data).candidate_name)
       THEN VerifyReturn(VerifyResult(FALSE, FALSE, 0, None, "validation_error",
                                      "No candidate name."))
       ELSE pc' = "generate" /\ UNCHANGED verification_result
    /\ UNCHANGED <<data, urls, url_idx, best_score, page_text, screenshot_path,
                   fetch_ret, fetched, httpx_calls, playwright_calls, ocr_calls,
                   name_matched>>
    /\ UNCHANGED nonVerifyVars

\* line 36
OrgNameStr ==
    IF Truthy(Val(data).issuer_name) THEN Val(Val(data).issuer_name)
    ELSE IF Truthy(Val(data).issuer_org) THEN Val(Val(data).issuer_org) ELSE ""

\* lines 36-39
VerifyGenerate ==
    /\ pc = "generate"
    /\ urls' = generate_urls(Val(data).issuer_url, Val(data).certificate_id,
                             OrgNameStr)
    /\ IF urls' = <<>>
       THEN VerifyReturn(VerifyResult(FALSE, FALSE, 0, None, "url_error",
                                      "No URL generated."))
       ELSE pc' = "trust" /\ UNCHANGED verification_result
    /\ UNCHANGED <<data, url_idx, best_score, page_text, screenshot_path,
                   fetch_ret, fetched, httpx_calls, playwright_calls, ocr_calls,
                   name_matched>>
    /\ UNCHANGED nonVerifyVars

\* Variant of the gate of line 42 that lets every candidate through
GateAcceptsAll(url) == TRUE

\* line 42: the gate applied to the first candidate
Gate(url) == is_trusted(url)

\* lines 42-47
VerifyTrust ==
    /\ pc = "trust"
    /\ IF ~Gate(urls[1])
       THEN VerifyReturn(VerifyResult(FALSE, FALSE, 0, Some(urls[1]),
                                      "security_check", "Untrusted domain."))
       ELSE pc' = "loop" /\ UNCHANGED verification_result
    /\ UNCHANGED <<data, urls, url_idx, best_score, page_text, screenshot_path,
                   fetch_ret, fetched, httpx_calls, playwright_calls, ocr_calls,
                   name_matched>>
    /\ UNCHANGED nonVerifyVars

\* line 49 (next candidate, and the start of the call of line 53) and line 84
VerifyLoop ==
    /\ pc = "loop"
    /\ IF url_idx < Min(Len(urls), MaxUrlsTried)
       THEN /\ url_idx' = url_idx + 1
            /\ fetch_ret' = "match"
            /\ pc' = "fetch_fast"
            /\ url_calls' = NoUrlCalls
            /\ UNCHANGED verification_result
       ELSE /\ VerifyReturn(VerifyResult(FALSE, TRUE, Round2(best_score),
                                         Some(urls[1]), "failed",
                                         "Verification failed. Best Match: "))
            /\ UNCHANGED <<url_idx, fetch_ret, url_calls>>
    /\ UNCHANGED <<data, urls, best_score, page_text, screenshot_path,
                   fetched, httpx_calls, playwright_calls, ocr_calls, name_matched>>
    /\ UNCHANGED nonScannerVars /\ UNCHANGED <<browserVars, name_fetched, similarities>>

\* scanner.py 29-32 with _fetch_httpx (42-56): None on any error or non-200
FetchHttpx ==
    /\ pc = "fetch_fast"
    /\ httpx_calls' = httpx_calls + 1
    /\ url_calls' = [url_calls EXCEPT !.httpx = @ + 1]
    /\ fetched' = fetched \cup {CurrentUrl}
    /\ \E text \in {None} \cup {Some(t) : t \in PageTexts} :
          /\ name_fetched' = (name_fetched \/ (text # None /\ HasName(Val(text))))
          /\ page_text' = text
          /\ IF text # None /\ Val(text).body # "" /\ Val(text).length > LongTextLength
             THEN screenshot_path' = None /\ pc' = fetch_ret
             ELSE pc' = "fetch_browser" /\ UNCHANGED screenshot_path
    /\ UNCHANGED <<data, urls, url_idx, best_score, fetch_ret, verification_result,
                   playwright_calls, ocr_calls, name_matched>>
    /\ UNCHANGED nonScannerVars /\ UNCHANGED <<browserVars, similarities>>

\* the positions of a call inside _fetch_playwright
BrowserPositions == {"browser_page", "browser_exit"}

\* scanner.py 35-38 with _fetch_playwright, lines 60-68: the locals, then launch,
\* new_context and new_page, all three outside the try/finally of lines 70-95
FetchPlaywright ==
    /\ pc = "fetch_browser"
    /\ playwright_calls' = playwright_calls + 1
    /\ url_calls' = [url_calls EXCEPT !.playwright = @ + 1]
    /\ fetched' = fetched \cup {CurrentUrl}
    /\ page_text' = None /\ screenshot_path' = None
    /\ \/ /\ browser_fault' = Some("launch")
          /\ pc' = "browser_exit" /\ UNCHANGED sessions
       \/ /\ browser_fault' = Some("new_context_or_page")
          /\ sessions' = sessions + 1
          /\ pc' = "browser_exit"
       \/ /\ browser_fault' = None
          /\ sessions' = sessions + 1
          /\ pc' = "browser_page"
    /\ UNCHANGED <<data, urls, url_idx, best_score, fetch_ret, verification_result,
                   httpx_calls, ocr_calls, name_matched, name_fetched,
                   similarities>>
    /\ UNCHANGED nonScannerVars

\* lines 70-95: navigation (a timeout falls back to the DOM wait and goes on),
\* screenshot and inner_text, then browser.close() in the finally clause
FetchPlaywrightPage ==
    /\ pc = "browser_page"
    /\ \/ /\ \E t \in PageTexts :
                /\ page_text' = Some(t) /\ screenshot_path' = Some(ScreenshotPath)
                /\ name_fetched' = (name_fetched \/ HasName(t))
          /\ sessions' = sessions - 1 /\ UNCHANGED browser_fault
       \/ /\ browser_fault' = Some("screenshot_or_inner_text")
          /\ sessions' = sessions - 1
          /\ UNCHANGED <<page_text, screenshot_path, name_fetched>>
       \/ /\ browser_fault' = Some("close")
          /\ UNCHANGED <<sessions, page_text, screenshot_path, name_fetched>>
    /\ pc' = "browser_exit"
    /\ UNCHANGED <<data, urls, url_idx, best_score, fetch_ret, verification_result,
                   fetched, httpx_calls, playwright_calls, ocr_calls, name_matched,
                   similarities, url_calls>>
    /\ UNCHANGED nonScannerVars

\* Variant in which stopping Playwright leaves its browsers running
StopPlaywrightKeepsBrowsers(open_sessions) == open_sessions

\* line 65: leaving "async with async_playwright()" stops the Playwright driver,
\* which shuts down every browser it launched
StopPlaywright(open_sessions) == 0

\* lines 65 and 97-101: the context manager exits, then the function returns
\* (content, screenshot_path), or (None, None) from the except clause
FetchPlaywrightExit ==
    /\ pc = "browser_exit"
    /\ sessions' = StopPlaywright(sessions)
    /\ IF browser_fault = None
       THEN UNCHANGED <<page_text, screenshot_path>>
       ELSE page_text' = None /\ screenshot_path' = None
    /\ pc' = fetch_ret
    /\ UNCHANGED <<data, urls, url_idx, best_score, fetch_ret, verification_result,
                   fetched, httpx_calls, playwright_calls, ocr_calls, name_matched,
                   browser_fault, observedVars>>
    /\ UNCHANGED nonScannerVars

\* lines 56-61 (after the fetch of line 53) and lines 70-74 (after the retry)
VerifyMatch(at, method, message, next) ==
    /\ pc = at
    /\ IF page_text # None /\ Val(page_text).body # ""
       THEN LET m == _fuzzy_match(CandidateName, Val(page_text), PageThreshold)
            IN  /\ best_score' = BestOf(best_score, m[2])
                /\ similarities' = similarities \cup {m[2]}
                /\ IF m[1]
                   THEN /\ VerifyReturn(VerifyResult(TRUE, TRUE, Round2(m[2]),
                                                     Some(CurrentUrl), method, message))
                        /\ name_matched' = TRUE
                   ELSE /\ pc' = next
                        /\ UNCHANGED <<verification_result, name_matched>>
       ELSE /\ pc' = next
            /\ UNCHANGED <<best_score, verification_result, name_matched,
                           similarities>>
    /\ UNCHANGED <<data, urls, url_idx, page_text, screenshot_path, fetch_ret,
                   fetched, httpx_calls, playwright_calls, ocr_calls>>
    /\ UNCHANGED nonScannerVars /\ UNCHANGED <<browserVars, name_fetched, url_calls>>

VerifyMatchFirst ==
    VerifyMatch("match", "dom_text_match", "Verified via text. Match: ", "retry")

\* Variant of line 65 that retries whenever the text did not match, with or
\* without a screenshot
VerifyRetryWithScreenshot ==
    /\ pc = "retry"
    /\ IF best_score < PageThreshold
       THEN fetch_ret' = "match_retry" /\ pc' = "fetch_browser"
       ELSE fetch_ret' = fetch_ret /\ pc' = "visual"
    /\ UNCHANGED <<data, urls, url_idx, best_score, page_text, screenshot_path,
                   verification_result, fetched, httpx_calls, playwright_calls,
                   ocr_calls, name_matched>>
    /\ UNCHANGED nonVerifyVars

\* line 65, and the start of the call of line 67
VerifyRetry ==
    /\ pc = "retry"
    /\ IF best_score < PageThreshold /\ ~Truthy(screenshot_path)
       THEN fetch_ret' = "match_retry" /\ pc' = "fetch_browser"
       ELSE fetch_ret' = fetch_ret /\ pc' = "visual"
    /\ UNCHANGED <<data, urls, url_idx, best_score, page_text, screenshot_path,
                   verification_result, fetched, httpx_calls, playwright_calls,
                   ocr_calls, name_matched>>
    /\ UNCHANGED nonVerifyVars

VerifyMatchRetry ==
    VerifyMatch("match_retry", "dom_text_match_retry",
                "Verified via browser text. Match: ", "visual")

\* lines 77-82, with the OCR of visual.py 32-36
VerifyVisual ==
    /\ pc = "visual"
    /\ IF Truthy(screenshot_path)
       THEN /\ ocr_calls' = ocr_calls + 1
            /\ url_calls' = [url_calls EXCEPT !.ocr = @ + 1]
            /\ \E ocr \in {None} \cup {Some(t) : t \in OcrTexts} :
                  LET v == verify_screenshot(screenshot_path, CandidateName, ocr)
                  IN  /\ best_score' = BestOf(best_score, v[2])
                      /\ similarities' = similarities \cup {v[2]}
                      /\ IF v[1]
                         THEN /\ VerifyReturn(VerifyResult(TRUE, TRUE, Round2(v[2]),
                                     Some(CurrentUrl), "visual_ocr",
                                     "Verified via visual OCR. Match: "))
                              /\ name_matched' = TRUE
                         ELSE /\ pc' = "loop"
                              /\ UNCHANGED <<verification_result, name_matched>>
       ELSE /\ pc' = "loop"
            /\ UNCHANGED <<best_score, verification_result, ocr_calls, name_matched,
                           similarities, url_calls>>
    /\ UNCHANGED <<data, urls, url_idx, page_text, screenshot_path, fetch_ret,
                   fetched, httpx_calls, playwright_calls>>
    /\ UNCHANGED nonScannerVars /\ UNCHANGED <<browserVars, name_fetched>>

\* visual.py 36: pytesseract.image_to_string never returns
VerifyVisualHangs ==
    /\ pc = "visual" /\ Truthy(screenshot_path) /\ ~HasTimeout("screenshot_ocr")
    /\ ocr_calls' = ocr_calls + 1
    /\ url_calls' = [url_calls EXCEPT !.ocr = @ + 1]
    /\ pc' = BlockedIn("screenshot_ocr")
    /\ UNCHANGED <<data, urls, url_idx, best_score, page_text, screenshot_path,
                   fetch_ret, verification_result, fetched, httpx_calls,
                   playwright_calls, name_matched>>
    /\ UNCHANGED nonScannerVars /\ UNCHANGED <<browserVars, name_fetched, similarities>>

NextVerify ==
    \/ VerifyValidate \/ VerifyGenerate \/ VerifyTrust \/ VerifyLoop
    \/ FetchHttpx \/ FetchPlaywright \/ FetchPlaywrightPage \/ FetchPlaywrightExit
    \/ VerifyMatchFirst \/ VerifyRetry
    \/ VerifyMatchRetry \/ VerifyVisual \/ VerifyVisualHangs

\* the locals of a fresh verify call
FreshVerifyLocals ==
    /\ urls = <<>> /\ url_idx = 0 /\ best_score = 0
    /\ page_text = None /\ screenshot_path = None /\ fetch_ret = ""
    /\ verification_result = None /\ fetched = {}
    /\ httpx_calls = 0 /\ playwright_calls = 0 /\ ocr_calls = 0
    /\ name_matched = FALSE
    /\ sessions = 0 /\ browser_fault = None /\ name_fetched = FALSE
    /\ similarities = {} /\ url_calls = NoUrlCalls
\* no verification takes part in the run
IdleVerify == data = None /\ FreshVerifyLocals

\* ExtractionResult objects (schemas.py 108-127) a direct caller may pass
ExtractionResults ==
    [candidate_name : {None} \cup {Some(n) : n \in Names},
     certificate_id : {None, Some("UC-1")},
     issuer_name : {None, Some("Udemy"), Some("Microsoft")}
                   \cup (IF entry = "verify" THEN {Some("Coursera")} ELSE {}),
     issuer_url : {None, Some("https://www.udemy.com/certificate/UC-1"),
                   Some("https://evil.example/UC-1")},
     issuer_org : {None, Some("Acme Academy")},
     raw_text_snippet : {None}, certificate_date : {None}]

----------------------------------------------------------------------------
(* The two VerificationAgent classes: verify of src/verificationagent.py     *)
(* (222-337, entry "root") and of backend/app/agents/verificationagent.py    *)
(* (199-273, entry "backend"), one action per statement or collaborator call *)

\* URL_PATTERNS of the backend class (lines 33-51): the first five platforms of
\* the table above
BackendPatterns == SubSeq(URL_PATTERNS, 1, 5)

\* _is_trusted_domain: root 109-118, backend 99-108 (same text as is_trusted)
_is_trusted_domain(url) == is_trusted(url)

\* _generate_verification_urls: root 120-151 (CSV entry, then patterns),
\* backend 110-128 (patterns only)
_generate_verification_urls(url, cert_id, org_name) ==
    IF entry = "root"
    THEN generate_urls(url, cert_id, IF Truthy(org_name) THEN Val(org_name) ELSE "")
    ELSE Dedup((IF Truthy(url) THEN <<Val(url)>> ELSE <<>>)
               \o (IF Truthy(org_name) /\ Truthy(cert_id)
                   THEN PatternUrlsOf(BackendPatterns, Lower(Val(org_name)),
                                      Val(cert_id))
                   ELSE <<>>))

\* root line 166: the score of the second rule of _fuzzy_match_name
PartsScore == 9500
\* root line 153: the default threshold of _fuzzy_match_name
NameThreshold == 7000

\* _fuzzy_match_name: root 153-169, backend 130-146: <<is_match, score>>
_fuzzy_match_name(name1, text) ==
    IF name1 = "" \/ text.body = "" THEN <<FALSE, 0>>
    ELSE LET name1_clean == Normalize(Lower(name1))
             name2_clean == Normalize(Lower(text.body))
             parts == Split(name1_clean)
         IN  IF Contains(name2_clean, name1_clean) THEN <<TRUE, Scale>>
             ELSE IF \A i \in 1..Len(parts) :
                        Len(parts[i]) > 2 => Contains(name2_clean, parts[i])
                  THEN <<TRUE, PartsScore>>
                  ELSE <<text.ratio >= NameThreshold, text.ratio>>

\* backend line 190: the length above which the httpx text is taken as it is
SufficientLength == 200

\* Page texts the agents' fetches may return
AgentPageTexts ==
    {[body |-> "Loading...", length |-> 10, ratio |-> 2667],
     [body |-> "Doe, John", length |-> 9, ratio |-> 5000],
     [body |-> "Udemy certificate of completion", length |-> 1200, ratio |-> 200],
     [body |-> "This certificate was awarded to John Doe", length |-> 1200, ratio |-> 0]}

\* the VerificationResult of the agents: the other fields keep their defaults
AgentResult(verified, trusted, message) ==
    VerifyResult(verified, trusted, 0, None, "none", message)

AgentOrgName == Val(data).issuer_name
\* root 240-241
has_basic_extraction == Truthy(Val(data).candidate_name) /\ Truthy(AgentOrgName)
has_id_or_url == Truthy(Val(data).certificate_id) \/ Truthy(Val(data).issuer_url)
\* root 244-248
KnownIssuers == {"udemy", "coursera", "edx", "linkedin", "google", "microsoft", "ibm"}
is_known_issuer ==
    /\ Truthy(AgentOrgName)
    /\ \E trusted \in KnownIssuers :
          \/ Contains(Lower(Val(AgentOrgName)), trusted)
          \/ Contains(trusted, Lower(Val(AgentOrgName)))
\* backend line 216
has_complete_extraction ==
    /\ Truthy(Val(data).candidate_name) /\ Truthy(Val(data).certificate_id)
    /\ (Truthy(AgentOrgName) \/ Truthy(Val(data).issuer_url))

AgentUnchanged ==
    /\ UNCHANGED <<data, best_score, screenshot_path, fetch_ret, ocr_calls>>
    /\ UNCHANGED nonVerifyVars

\* root 232-285, backend 208-236: everything before the loop
AgentStart ==
    /\ pc = "agent_verify"
    /\ LET generated == _generate_verification_urls(Val(data).issuer_url,
                            Val(data).certificate_id, AgentOrgName)
       IN  IF entry = "root" /\ ~has_id_or_url
           THEN /\ VerifyReturn(
                     IF has_basic_extraction /\ is_known_issuer
                     THEN AgentResult(FALSE, TRUE, "Manual verification required.")
                     ELSE AgentResult(FALSE, FALSE, "Incomplete extraction."))
                /\ UNCHANGED urls
           ELSE IF generated = <<>>
           THEN /\ VerifyReturn(AgentResult(FALSE,
                                   entry = "root" /\ is_known_issuer,
                                   "No verification URL available"))
                /\ UNCHANGED urls
           ELSE IF ~_is_trusted_domain(generated[1])
           THEN /\ VerifyReturn(AgentResult(FALSE, FALSE,
                                            "Domain not in trusted list: "))
                /\ UNCHANGED urls
           ELSE /\ urls' = generated
                /\ pc' = "agent_loop" /\ UNCHANGED verification_result
    /\ UNCHANGED <<url_idx, page_text, fetched, httpx_calls, playwright_calls,
                   name_matched>>
    /\ AgentUnchanged

\* root 290 and 331-337, backend 241 and 259-273: the next candidate, or the
\* result when both candidates are used up
AgentLoop ==
    /\ pc = "agent_loop"
    /\ IF url_idx < Min(Len(urls), MaxUrlsTried)
       THEN /\ url_idx' = url_idx + 1
            /\ pc' = "agent_httpx"
            /\ UNCHANGED verification_result
       ELSE /\ VerifyReturn(
                 IF entry = "backend" /\ has_complete_extraction
                                      /\ _is_trusted_domain(urls[1])
                 THEN AgentResult(TRUE, TRUE,
                                  "Certificate verified from trusted domain")
                 ELSE AgentResult(FALSE, TRUE, "Manual check: "))
            /\ UNCHANGED url_idx
    /\ UNCHANGED <<urls, page_text, fetched, httpx_calls, playwright_calls,
                   name_matched>>
    /\ AgentUnchanged

\* _fetch_with_httpx (root 171-193, backend 148-170); in the backend class it is
\* the first step of _fetch_page_content (186-197)
AgentFetchHttpx ==
    /\ pc = "agent_httpx"
    /\ httpx_calls' = httpx_calls + 1
    /\ fetched' = fetched \cup {CurrentUrl}
    /\ \E content \in {None} \cup {Some(t) : t \in AgentPageTexts} :
          /\ page_text' = content
          /\ pc' = IF /\ entry = "backend" /\ use_playwright
                      /\ ~(content # None /\ Val(content).length > SufficientLength)
                   THEN "agent_playwright" ELSE "agent_match"
    /\ UNCHANGED <<urls, url_idx, verification_result, playwright_calls,
                   name_matched>>
    /\ AgentUnchanged

\* _fetch_with_playwright (root 195-207, backend 172-184): None when it raises
AgentFetchPlaywright ==
    /\ pc = "agent_playwright"
    /\ playwright_calls' = playwright_calls + 1
    /\ fetched' = fetched \cup {CurrentUrl}
    /\ page_text' \in {None} \cup {Some(t) : t \in AgentPageTexts}
    /\ pc' = IF entry = "root" THEN "agent_match_browser" ELSE "agent_match"
    /\ UNCHANGED <<urls, url_idx, verification_result, httpx_calls, name_matched>>
    /\ AgentUnchanged

\* the name check on the text in hand: is_verified = True on a match, else on to
\* the statement `next`
AgentCheck(at, next) ==
    /\ pc = at
    /\ LET m == IF page_text # None /\ Truthy(Val(data).candidate_name)
                THEN _fuzzy_match_name(CandidateName, Val(page_text))
                ELSE <<FALSE, 0>>
       IN  IF m[1]
           THEN /\ VerifyReturn(AgentResult(TRUE, TRUE,
                                            "Certificate verified via web crawl."))
                /\ name_matched' = TRUE
           ELSE /\ pc' = next
                /\ UNCHANGED <<verification_result, name_matched>>
    /\ UNCHANGED <<urls, url_idx, page_text, fetched, httpx_calls, playwright_calls>>
    /\ AgentUnchanged

\* root 300-311 (then the Playwright step of 314 when enabled), backend 249-257
AgentMatch ==
    AgentCheck("agent_match",
               IF entry = "root" /\ use_playwright THEN "agent_playwright"
               ELSE "agent_loop")
\* root 319-329
AgentMatchBrowser == AgentCheck("agent_match_browser", "agent_loop")

NextAgent ==
    \/ AgentStart \/ AgentLoop \/ AgentFetchHttpx \/ AgentFetchPlaywright
    \/ AgentMatch \/ AgentMatchBrowser

----------------------------------------------------------------------------
(* ExtractionAgent: cleaning and validation of the extracted fields        *)
(* (ext.py 96-218) and the issuer enumeration (schemas.py 10-93)           *)

\* A value of the JSON object the Mistral reply holds: a string, a number
\* (kept as its text) or null / an absent key
JStr(s) == [t |-> "str", v |-> s]
JNum(s) == [t |-> "num", v |-> s]
JNull == [t |-> "null", v |-> ""]
\* Python truthiness of such a value
JTruthy(j) == (j.t = "str" /\ j.v # "") \/ (j.t = "num" /\ j.v # "0")
\* the string itself, or "" for a falsy value
JText(j) == IF j.t = "str" THEN j.v ELSE ""

\* The position i (1-based) of s matches one of the patterns of lines 111-120;
\* look-behind and look-ahead read the string the substitution was started on
Hit(pattern, s, i) ==
    LET c == CharAt(s, i)
        prev == IF i > 1 THEN CharAt(s, i - 1) ELSE ""
        next == IF i < Len(s) THEN CharAt(s, i + 1) ELSE ""
    IN  CASE pattern = "(?<=\\d)l(?=\\d)" -> c = "l" /\ IsDigit(prev) /\ IsDigit(next)
          [] pattern = "^l(?=\\d)" -> c = "l" /\ i = 1 /\ IsDigit(next)
          [] pattern = "(?<=\\d)l$" -> c = "l" /\ i = Len(s) /\ IsDigit(prev)
          [] pattern = "(?<=\\d)I(?=\\d)" -> c = "I" /\ IsDigit(prev) /\ IsDigit(next)
          [] pattern = "O(?=0)" -> c = "O" /\ next = "0"
          [] pattern = "(?<=0)O" -> c = "O" /\ prev = "0"
\* re.sub(pattern, new, s) for these one-character patterns
ReSub(pattern, new, s) ==
    Cat([i \in 1..Len(s) |-> IF Hit(pattern, s, i) THEN new ELSE CharAt(s, i)])

\* _clean_certificate_id, lines 96-122 (called with a non-empty string)
_clean_certificate_id(cert_id) ==
    LET a == Join(Split(cert_id), "")
        b == Replace(Replace(Replace(Replace(a, "|", "1"), "é", "6"), "ö", "o"),
                     "ï", "i")
        c == ReSub("(?<=\\d)l(?=\\d)", "1", b)
        d == ReSub("^l(?=\\d)", "1", c)
        e == ReSub("(?<=\\d)l$", "1", d)
        f == ReSub("(?<=\\d)I(?=\\d)", "1", e)
        g == ReSub("O(?=0)", "0", f)
    IN  ReSub("(?<=0)O", "0", g)

\* _clean_issuer_url, lines 124-147 (url non-empty; cert_id "" when it is falsy)
_clean_issuer_url(url, cert_id) ==
    LET u == IF StartsWith(Strip(url), "http") THEN Strip(url)
             ELSE "https://" \o Strip(url)
        domain == Lower(Netloc(u))
    IN  IF NetlocRaises(u) THEN u
        ELSE IF Contains(domain, "ude.my") /\ cert_id # ""
             THEN "https://www.udemy.com/certificate/" \o cert_id
        ELSE IF Contains(domain, "coursera.org") /\ Contains(UrlPath(u), "verify")
                /\ cert_id # ""
             THEN "https://www.coursera.org/verify/" \o cert_id
        ELSE u

\* _validate_certificate_id, lines 149-193 (cert_id non-empty; issuer_name ""
\* when it is falsy): the id, or None when it is rejected
_validate_certificate_id(cert_id, issuer_name) ==
    LET issuer_lower == Lower(issuer_name)
        generic == IF Len(cert_id) <= 6 /\ IsDigitStr(cert_id) THEN None
                   ELSE Some(cert_id)
    IN  IF issuer_name = "" THEN Some(cert_id)
        ELSE IF Contains(issuer_lower, "udemy")
             THEN IF StartsWith(cert_id, "UC-") /\ Len(cert_id) > 15
                  THEN Some(cert_id) ELSE None
        ELSE IF Contains(issuer_lower, "coursera")
                /\ Len(cert_id) >= 12 /\ IsAlnum(Replace(cert_id, "-", ""))
             THEN Some(cert_id)
        ELSE IF Contains(issuer_lower, "coursera") /\ Len(cert_id) < 8 THEN None
        ELSE IF Contains(issuer_lower, "edx")
             THEN IF Len(cert_id) >= 20 THEN Some(cert_id) ELSE None
        ELSE IF Contains(issuer_lower, "linkedin") /\ Len(cert_id) >= 8
             THEN Some(cert_id)
        ELSE generic

\* lines 202-207
phrases_to_remove ==
    <<"issued by", "via", "powered by", "through", "authorized by",
      "offered through", "from", "in partnership with", "in collaboration with",
      "certificate by">>
\* the loop of lines 209-216 from the k-th phrase on
RECURSIVE RemovePhrases(_, _)
RemovePhrases(issuer_name, k) ==
    IF k > Len(phrases_to_remove) THEN issuer_name
    ELSE LET pos == Find(Lower(issuer_name), phrases_to_remove[k])
         IN  IF pos < 0 THEN RemovePhrases(issuer_name, k + 1)
             ELSE RemovePhrases(
                      Strip(From(issuer_name, pos + Len(phrases_to_remove[k]))),
                      k + 1)
\* _clean_issuer_name, lines 195-218 (issuer_name non-empty)
_clean_issuer_name(issuer_name) ==
    Strip(RemovePhrases(Join(Split(issuer_name), " "), 1))

\* IssuerName, schemas.py 10-67
IssuerName ==
    {"Coursera", "edX", "Udemy", "LinkedIn Learning", "FutureLearn", "Udacity",
     "Alison", "Great Learning", "Simplilearn", "Pluralsight", "Skillshare",
     "MasterClass", "Codecademy", "freeCodeCamp", "SWAYAM", "NPTEL", "OpenLearn",
     "Khan Academy", "upGrad", "Shaw Academy", "Open Universities Australia",
     "360Training", "CareerFoundry", "Simpliaxis", "Knowledgehut",
     "Cognitive Class (IBM)", "W3Schools", "Google Skillshop", "IBM", "Microsoft",
     "AWS", "HubSpot Academy", "Meta", "Adobe", "Salesforce Trailhead", "Cisco",
     "CompTIA", "Oracle", "SAP", "Palo Alto Networks", "Semrush Academy", "Apple",
     "Intel", "SAS", "Tableau", "DeepLearning.AI", "PMI", "ISACA", "(ISC)²",
     "Red Hat", "VMware", "WHO", "Linux Foundation", "British Council", "ACCA",
     "CIMA", "UNICEF"}
\* The member difflib.SequenceMatcher scores highest, at 0.6 or more, for the
\* inexact issuer strings that occur here (None: every member is below 0.6)
NearestIssuer ==
    [cleaned \in {"acme academy", "microsoft learn", "evil corp", "google"} |->
        CASE cleaned = "acme academy" -> Some("Khan Academy")
          [] cleaned = "microsoft learn" -> Some("Microsoft")
          [] OTHER -> None]
\* fuzzy_match_issuer, schemas.py 70-93
fuzzy_match_issuer(raw_issuer) ==
    LET cleaned == Lower(Strip(raw_issuer))
        exact == {item \in IssuerName : Lower(item) = cleaned}
    IN  IF raw_issuer = "" THEN None
        ELSE IF exact # {} THEN Some(CHOOSE item \in exact : TRUE)
        ELSE IF cleaned \in DOMAIN NearestIssuer THEN NearestIssuer[cleaned]
        ELSE None

----------------------------------------------------------------------------
(* ExtractionAgent.extract (ext.py 220-577), one action per stage          *)

MIN_OCR_TEXT_LENGTH == 20
MAX_TEXT_SNIPPET_LENGTH == 300
MISTRAL_TIMEOUT_SECONDS == 30
OCR_TIMEOUT_SECONDS == 60

\* The timeout of the asyncio.wait_for around each awaited stage of extract
\* (lines 321-324, 367-370 and 502-509)
StageTimeout(stage) ==
    CASE stage = "tesseract" -> OCR_TIMEOUT_SECONDS
      [] stage = "easyocr" -> OCR_TIMEOUT_SECONDS
      [] stage = "mistral" -> MISTRAL_TIMEOUT_SECONDS
\* Seconds a collaborator call that answers may take: at once, or SlowCall
SlowCall == 25
Durations == IF entry = "extract" THEN {0, SlowCall} ELSE {0}

\* Exception classes, by name: ValueError and its subclasses, and OSError
\* (IOError) and its subclasses other than TimeoutError
IsValueError(e) == e \in {"ValueError", "JSONDecodeError", "ValidationError"}
IsTimeoutError(e) == e = "TimeoutError"
IsIOError(e) == e \in {"OSError", "TesseractNotFoundError"}

\* _validate_image_bytes, lines 220-234: every rejection is a ValueError
ValidImageKinds == {"jpeg", "png"}
\* Variant that only rejects empty bytes
ValidateNonEmptyOnly(bytes) == IF bytes = "empty" THEN Some("ValueError") ELSE None

_validate_image_bytes(bytes) ==
    IF bytes \in ValidImageKinds THEN None ELSE Some("ValueError")

\* the keyword lists of lines 245 and 247-248
CertificateIndicators == {"certificate", "certify", "awarded", "completed"}
OrganizationIndicators ==
    {"udemy", "coursera", "hubspot", "google", "ibm", "microsoft", "edx", "linkedin"}

\* Variant that looks for the keywords in the text as it is, without lowering it
HasCriticalDataCaseSensitive(text) ==
    /\ \E word \in CertificateIndicators : Contains(text, word)
    /\ \E word \in OrganizationIndicators : Contains(text, word)
    /\ Len(Split(text)) > 30

\* _has_critical_data, lines 236-260
_has_critical_data(text) ==
    LET text_lower == Lower(text)
        has_name_indicator ==
            \E word \in CertificateIndicators : Contains(text_lower, word)
        has_org_indicator ==
            \E word \in OrganizationIndicators : Contains(text_lower, word)
    IN  has_name_indicator /\ has_org_indicator /\ Len(Split(text)) > 30

\* Variant that appends the second text whatever it adds
MergeAlways(text1, text2) == text1 \o "\n" \o text2

\* _merge_ocr_results, lines 262-278
_merge_ocr_results(text1, text2) ==
    LET words1 == {Split(text1)[i] : i \in 1..Len(Split(text1))}
        words2 == {Split(text2)[i] : i \in 1..Len(Split(text2))}
    IN  IF text1 = "" THEN text2
        ELSE IF text2 = "" THEN text1
        ELSE IF Cardinality(words2 \ words1) > 5 THEN text1 \o "\n" \o text2
        ELSE text1

\* lines 293, 298, 303: not raw_text or len(raw_text.strip()) < MIN_OCR_TEXT_LENGTH
LowText(t) == t = "" \/ Len(Strip(t)) < MIN_OCR_TEXT_LENGTH

\* The four image_to_string calls of lines 290, 295, 300 and 305: the image
\* read, the config passed, and which call it is
TesseractPasses ==
    <<[image |-> "processed_image", config |-> "", nth |-> 1],
      [image |-> "processed_image", config |-> "--psm 6", nth |-> 2],
      [image |-> "image", config |-> "", nth |-> 3],
      [image |-> "image", config |-> "--psm 11", nth |-> 4]>>
\* line 312: the pre-processed top-right crop
CornerPass == [image |-> "corner_processed", config |-> "--psm 6", nth |-> 5]

\* _ocr_task of _perform_tesseract_ocr, lines 285-319, for what the four
\* image_to_string attempts and the corner attempt would read: the text and the
\* number of image_to_string calls made
TesseractTask(attempt, corner_text) ==
    LET t1 == attempt[1]
        t2 == IF LowText(t1) THEN attempt[2] ELSE t1
        t3 == IF LowText(t2) THEN attempt[3] ELSE t2
        t4 == IF LowText(t3) THEN attempt[4] ELSE t3
        n == 1 + (IF LowText(t1) THEN 1 ELSE 0) + (IF LowText(t2) THEN 1 ELSE 0)
               + (IF LowText(t3) THEN 1 ELSE 0) + (IF t4 # "" THEN 1 ELSE 0)
        made == <<TRUE, LowText(t1), LowText(t2), LowText(t3)>>
    IN  [text |-> IF t4 # "" /\ corner_text # "" /\ Len(Strip(corner_text)) > 5
                  THEN t4 \o "\n" \o corner_text ELSE t4,
         calls |-> n,
         passes |-> SelectSeq(TesseractPasses, LAMBDA p : made[p.nth])
                    \o (IF t4 # "" THEN <<CornerPass>> ELSE <<>>)]

TextComplete ==
    "Certificate of Completion This is to certify that John Doe has successfully completed the course Python for Everybody on Udemy with a total of 12 hours of instruction on 1 January 2024 Instructors Jane Roe John Doe"
TextPartial == "Certificate of Completion John Doe"
TesseractTexts ==
    IF entry = "extract"
    THEN {"", "Udemy \n", TextPartial, "Udemy Certificate: John Doe", TextComplete}
    ELSE {"", TextComplete}
CornerTexts == IF entry = "extract" THEN {"", "0004", "UC-9ba43c6a"} ELSE {""}
EasyOcrTexts ==
    IF entry = "extract"
    THEN {"", "John Doe Udemy",
          "Udemy certificate UC-9ba43c6a-3983-495c awarded to John Doe verified online"}
    ELSE {TextPartial}
QrData ==
    IF entry = "extract"
    THEN {None, Some("hello"),
          Some("https://www.udemy.com/certificate/UC-9ba43c6a-3983-495c/"),
          Some("https://www.udemy.com/certificate/UC-9ba43c6a-3983-495c")}
    ELSE {None}

\* qr_data.split('/')[-2] if qr_data.endswith('/') else qr_data.split('/')[-1]
RECURSIVE LastSegment(_)
LastSegment(s) ==
    LET i == Find(s, "/") IN IF i < 0 THEN s ELSE LastSegment(From(s, i + 1))
PossibleCertificateId(qr_data) ==
    IF EndsWith(qr_data, "/")
    THEN LastSegment(SubSeq(qr_data, 1, Len(qr_data) - 1))
    ELSE LastSegment(qr_data)

\* lines 545-546: every run of whitespace becomes one space
CollapseWhitespace(s) ==
    Cat([i \in 1..Len(s) |->
            IF CharAt(s, i) \notin Whitespace THEN CharAt(s, i)
            ELSE IF i > 1 /\ CharAt(s, i - 1) \in Whitespace THEN "" ELSE " "])
\* lines 545-551
Snippet(text) ==
    LET full_text == CollapseWhitespace(text)
    IN  IF Len(full_text) > MAX_TEXT_SNIPPET_LENGTH
        THEN SubSeq(full_text, 1, MAX_TEXT_SNIPPET_LENGTH) \o "..."
        ELSE full_text

\* The objects a Mistral reply may hold
Fields(name, id, issuer, url) ==
    [candidate_name |-> name, certificate_id |-> id, issuer_name |-> issuer,
     issuer_url |-> url]
UdemyId == "UC-9ba43c6a-3983-495c"
ReplyFieldsFew ==
    {Fields(JStr("John Doe"), JStr("UC-9ba43c6a 3983-495c"), JStr("powered by Udemy"),
            JStr("https://www.udemy.com/certificate/" \o UdemyId)),
     Fields(JStr("John Doe"), JStr("MS-12345678"), JStr("Microsoft"),
            JStr("ude.my/" \o UdemyId)),
     Fields(JStr("John Doe"), JStr("0004"), JStr("Udemy"), JStr("")),
     Fields(JNull, JStr(UdemyId), JStr("Udemy"), JNull),
     Fields(JNum("42"), JNull, JNull, JNull)}
ReplyFieldsAll ==
    ReplyFieldsFew \cup
    {Fields(JStr("John Doe"), JStr("ABCD1234EFGH"), JStr("Acme Academy"),
            JStr("evil.example/cert/1")),
     Fields(JStr("John Doe"), JNum("7"), JStr("Udemy"), JNull),
     Fields(JStr("John Doe"), JStr("UC-12 34 56 7890"), JStr("Udemy"), JNull),
     Fields(JStr("John Doe"), JStr("1l2 O0"), JNum("3"), JNull),
     Fields(JStr("John Doe"), JStr("ABCD1234EFGH"), JStr("issued by"),
            JStr("www.coursera.org/verify/X"))}
\* How the reply text carries the object: alone, in a markdown fence, inside
\* prose, as text that is not valid JSON, or as a JSON array; the last shape is
\* prose around a JSON object one of whose strings holds a fence, as in
\* Here: {"candidate_name": "John Doe", "note": "```{see above}```"}
ReplyShapes ==
    {"json", "fenced_json", "json_in_prose", "fenced_broken", "broken_braces",
     "no_braces", "json_array", "fence_inside_json_in_prose"}
\* What the three parsers of lines 518-526 find in a reply of each shape:
\* whether json.loads accepts the whole text, whether the fence pattern of line
\* 520 matches and its group is valid JSON, and whether the pattern of line 524
\* matches and the span from the first { to the last } is valid JSON
ReplyParts(shape) ==
    CASE shape \in {"json", "json_array"} ->
            [whole |-> TRUE, fence |-> FALSE, fenced |-> FALSE,
             braces |-> TRUE, span |-> TRUE]
      [] shape = "fenced_json" ->
            [whole |-> FALSE, fence |-> TRUE, fenced |-> TRUE,
             braces |-> TRUE, span |-> TRUE]
      [] shape = "json_in_prose" ->
            [whole |-> FALSE, fence |-> FALSE, fenced |-> FALSE,
             braces |-> TRUE, span |-> TRUE]
      [] shape = "fenced_broken" ->
            [whole |-> FALSE, fence |-> TRUE, fenced |-> FALSE,
             braces |-> TRUE, span |-> FALSE]
      [] shape = "broken_braces" ->
            [whole |-> FALSE, fence |-> FALSE, fenced |-> FALSE,
             braces |-> TRUE, span |-> FALSE]
      [] shape = "no_braces" ->
            [whole |-> FALSE, fence |-> FALSE, fenced |-> FALSE,
             braces |-> FALSE, span |-> FALSE]
      [] shape = "fence_inside_json_in_prose" ->
            [whole |-> FALSE, fence |-> TRUE, fenced |-> FALSE,
             braces |-> TRUE, span |-> TRUE]
MistralReplies ==
    IF entry = "extract"
    THEN {[shape |-> s, fields |-> f] : s \in ReplyShapes, f \in ReplyFieldsAll}
    ELSE {[shape |-> "json", fields |-> f] : f \in ReplyFieldsFew}
         \cup {[shape |-> s, fields |-> Fields(JNull, JNull, JNull, JNull)] :
                  s \in {"fenced_broken", "no_braces"}}

\* lines 517-529: the exception raised, if any; json.loads of line 522 or 526
\* raises JSONDecodeError inside the except clause of line 519
ParseRaises(reply) ==
    LET parts == ReplyParts(reply.shape)
    IN  IF parts.whole THEN None
        ELSE IF parts.fence
             THEN IF parts.fenced THEN None ELSE Some("JSONDecodeError")
        ELSE IF parts.braces
             THEN IF parts.span THEN None ELSE Some("JSONDecodeError")
        ELSE Some("ValueError")

\* lines 531-548 for the parsed object d: what is raised, or the cleaned fields;
\* a truthy number reaches a str method and raises AttributeError (TypeError)
CleanRaises(d) ==
    \E k \in {"issuer_name", "certificate_id", "issuer_url"} :
        d[k].t = "num" /\ JTruthy(d[k])
CleanFields(d) ==
    LET issuer_name == IF JTruthy(d.issuer_name)
                       THEN JStr(_clean_issuer_name(d.issuer_name.v))
                       ELSE d.issuer_name
        validated == IF JTruthy(d.certificate_id)
                     THEN _validate_certificate_id(d.certificate_id.v, JText(issuer_name))
                     ELSE None
        certificate_id == IF ~JTruthy(d.certificate_id) THEN d.certificate_id
                          ELSE IF Truthy(validated)
                               THEN JStr(_clean_certificate_id(Val(validated)))
                          ELSE JNull
        issuer_url == IF JTruthy(d.issuer_url)
                      THEN JStr(_clean_issuer_url(d.issuer_url.v, JText(certificate_id)))
                      ELSE d.issuer_url
    IN  Fields(d.candidate_name, certificate_id, issuer_name, issuer_url)

\* lines 563-577: what the except clauses of extract raise for e
ExtractReraises(e) ==
    IF IsValueError(e) \/ IsTimeoutError(e) THEN e
    ELSE IF IsIOError(e) THEN "ValueError"
    ELSE "RuntimeError"

\* raise e inside the try block of extract
ExtractRaise(e) == raised' = Some(e) /\ pc' = "extract_except"

\* lines 423-424
ExtractValidate ==
    /\ pc = "extract"
    /\ LET e == _validate_image_bytes(Val(image_bytes))
       IN  IF IsSome(e) THEN ExtractRaise(Val(e))
           ELSE pc' = "tesseract" /\ UNCHANGED raised
    /\ UNCHANGED <<raw_text, llm_content, extraction_data,
                   tesseract_calls, ocr_passes, easyocr_calls, qr_calls, mistral_calls, elapsed,
                   easyocr_reader>>
    /\ UNCHANGED nonExtractVars

\* _perform_tesseract_ocr, lines 280-334, and lines 388-394 of the cascade
ExtractTesseract ==
    /\ pc = "tesseract"
    /\ \/ /\ ExtractRaise("TimeoutError")
          /\ elapsed' = elapsed + StageTimeout("tesseract")
          /\ UNCHANGED <<raw_text, tesseract_calls, ocr_passes>>
       \/ /\ ExtractRaise("TesseractNotFoundError")
          /\ UNCHANGED <<raw_text, tesseract_calls, ocr_passes, elapsed>>
       \/ \E attempt \in [1..4 -> TesseractTexts], corner_text \in CornerTexts,
             seconds \in Durations :
             LET r == TesseractTask(attempt, corner_text)
             IN  /\ raw_text' = r.text
                 /\ tesseract_calls' = r.calls
                 /\ ocr_passes' = r.passes
                 /\ elapsed' = elapsed + seconds
                 /\ pc' = IF _has_critical_data(r.text) THEN "qr" ELSE "easyocr"
                 /\ UNCHANGED raised
    /\ UNCHANGED <<llm_content, extraction_data, easyocr_calls, qr_calls,
                   mistral_calls, easyocr_reader>>
    /\ UNCHANGED nonExtractVars

\* _perform_easyocr, lines 336-379, and lines 396-406 of the cascade; the reader
\* is missing (line 343, _get_easyocr_reader having stored False) or reads a
\* text; a timed-out call leaves its thread running, with the reader in any state
ExtractEasyOcr ==
    /\ pc = "easyocr"
    /\ \/ /\ ExtractRaise("TimeoutError")
          /\ elapsed' = elapsed + StageTimeout("easyocr")
          /\ easyocr_reader' \in {easyocr_reader, "Reader", "False"}
          /\ UNCHANGED <<raw_text, easyocr_calls>>
       \/ /\ easyocr_reader # "False"
          /\ ExtractRaise("RuntimeError")
          /\ easyocr_calls' = easyocr_calls + 1
          /\ easyocr_reader' = "Reader"
          /\ UNCHANGED <<raw_text, elapsed>>
       \/ /\ easyocr_reader # "Reader"
          /\ pc' = "qr"
          /\ easyocr_reader' = "False"
          /\ UNCHANGED <<raw_text, easyocr_calls, raised, elapsed>>
       \/ \E easyocr_text \in EasyOcrTexts, seconds \in Durations :
             /\ easyocr_reader # "False"
             /\ raw_text' = IF easyocr_text # ""
                            THEN _merge_ocr_results(raw_text, easyocr_text)
                            ELSE raw_text
             /\ easyocr_calls' = easyocr_calls + 1
             /\ easyocr_reader' = "Reader"
             /\ elapsed' = elapsed + seconds
             /\ pc' = "qr"
             /\ UNCHANGED raised
    /\ UNCHANGED <<llm_content, extraction_data, tesseract_calls, ocr_passes, qr_calls,
                   mistral_calls>>
    /\ UNCHANGED nonExtractVars

\* lines 432-437 with _detect_qr_code (77-94), which returns None on any fault
ExtractQr ==
    /\ pc = "qr"
    /\ qr_calls' = qr_calls + 1
    /\ \E qr_data \in QrData :
          raw_text' =
              IF ~Truthy(qr_data) THEN raw_text
              ELSE raw_text \o "\n\n[QR CODE DATA FOUND]: " \o Val(qr_data)
                   \o (IF Contains(Val(qr_data), "udemy.com")
                          /\ Contains(Val(qr_data), "UC-")
                       THEN "\n[POSSIBLE CERTIFICATE ID]: "
                            \o PossibleCertificateId(Val(qr_data))
                       ELSE "")
    /\ \E seconds \in Durations : elapsed' = elapsed + seconds
    /\ pc' = "mistral"
    /\ UNCHANGED <<llm_content, extraction_data, raised, tesseract_calls, ocr_passes,
                   easyocr_calls, mistral_calls, easyocr_reader>>
    /\ UNCHANGED nonExtractVars

\* lines 85-86: detectAndDecode never returns
ExtractQrHangs ==
    /\ pc = "qr" /\ ~HasTimeout("qr_scan")
    /\ qr_calls' = qr_calls + 1
    /\ pc' = BlockedIn("qr_scan")
    /\ UNCHANGED <<raw_text, llm_content, extraction_data, raised, tesseract_calls, ocr_passes,
                   easyocr_calls, mistral_calls, elapsed,
                   easyocr_reader>>
    /\ UNCHANGED nonExtractVars

\* lines 501-514: the Mistral call times out, fails, or answers
ExtractMistral ==
    /\ pc = "mistral"
    /\ mistral_calls' = mistral_calls + 1
    /\ \/ /\ ExtractRaise("TimeoutError") /\ UNCHANGED llm_content
          /\ elapsed' = elapsed + StageTimeout("mistral")
       \/ ExtractRaise("SDKError") /\ UNCHANGED <<llm_content, elapsed>>
       \/ \E reply \in MistralReplies, seconds \in Durations :
             /\ llm_content' = Some(reply) /\ pc' = "parse" /\ UNCHANGED raised
             /\ elapsed' = elapsed + seconds
    /\ UNCHANGED <<raw_text, extraction_data, tesseract_calls, ocr_passes, easyocr_calls,
                   qr_calls, easyocr_reader>>
    /\ UNCHANGED nonExtractVars

\* lines 517-529
ExtractParse ==
    /\ pc = "parse"
    /\ LET e == ParseRaises(Val(llm_content))
       IN  IF IsSome(e) THEN ExtractRaise(Val(e))
           ELSE pc' = "clean" /\ UNCHANGED raised
    /\ UNCHANGED <<raw_text, llm_content, extraction_data,
                   tesseract_calls, ocr_passes, easyocr_calls, qr_calls, mistral_calls, elapsed,
                   easyocr_reader>>
    /\ UNCHANGED nonExtractVars

\* lines 531-561
ExtractClean ==
    /\ pc = "clean"
    /\ LET reply == Val(llm_content)
       IN  IF reply.shape = "json_array" \/ CleanRaises(reply.fields)
           THEN ExtractRaise("AttributeError") /\ UNCHANGED extraction_data
           ELSE /\ extraction_data' =
                      Some([fields |-> CleanFields(reply.fields),
                            raw_text_snippet |-> Snippet(raw_text)])
                /\ pc' = "extract_returned"
                /\ UNCHANGED raised
    /\ UNCHANGED <<raw_text, llm_content,
                   tesseract_calls, ocr_passes, easyocr_calls, qr_calls, mistral_calls, elapsed,
                   easyocr_reader>>
    /\ UNCHANGED nonExtractVars

\* lines 563-577: the exception leaves extract
ExtractExcept ==
    /\ pc = "extract_except"
    /\ raised' = Some(ExtractReraises(Val(raised)))
    /\ pc' = IF entry = "verify_certificate" THEN "main_except" ELSE "extract_raised"
    /\ UNCHANGED <<raw_text, llm_content, extraction_data,
                   tesseract_calls, ocr_passes, easyocr_calls, qr_calls, mistral_calls, elapsed,
                   easyocr_reader>>
    /\ UNCHANGED nonExtractVars

NextExtract ==
    \/ ExtractValidate \/ ExtractTesseract \/ ExtractEasyOcr \/ ExtractQr
    \/ ExtractQrHangs
    \/ ExtractMistral \/ ExtractParse \/ ExtractClean \/ ExtractExcept

\* the locals of a fresh extract call
FreshExtractLocals ==
    /\ raw_text = "" /\ llm_content = None /\ extraction_data = None
    /\ raised = None
    /\ tesseract_calls = 0 /\ easyocr_calls = 0 /\ qr_calls = 0
    /\ mistral_calls = 0 /\ elapsed = 0 /\ ocr_passes = <<>>
    /\ easyocr_reader = "None"
\* no request takes part in the run
\* no helper function is called directly
NoCall == call_args = <<>> /\ call_results = <<>>
\* one call at a time
NoProofs == now = 0 /\ proof_dir = <<>>
NoTasks == tasks = <<>> /\ reader_inits = 0 /\ reader_assigned = <<>> /\ NoProofs
IdleRequest ==
    file = None /\ image_bytes = None /\ response = None /\ NoCall /\ NoTasks

----------------------------------------------------------------------------
(* ForensicsAgent: the three statistical detectors (forensics.py)          *)

\* Largest k for which the LLM risk_score k * 0.5 is enumerated
MaxRiskSteps == 3

\* _perform_ela, lines 284-382, from the block statistics st of the ELA map.
\* scale_score (lines 311-317) has weight 0.00 and no other use.
_perform_ela(st) ==
    IF st.large_median < Fx(400)
    THEN LET localized_score == Min(st.small_outlier_ratio * 8, Scale)
             extreme_score == Min(st.extreme_deviation \div 3, Scale)
             cv_bound == st.small_mean > Fx(1)
             small_cv == IF cv_bound THEN FDiv(st.small_std, st.small_mean) ELSE 0
             cv_score == IF cv_bound THEN Min(FDiv(small_cv, Fx(350)), Scale) ELSE 0
             gap_score == Min(FDiv(st.percentile_gap, Fx(150)), Scale)
             max_score == Min(st.max_deviation \div 6, Scale)
             weighted == Weighted(localized_score, 30) + Weighted(extreme_score, 25)
                         + Weighted(gap_score, 20) + Weighted(cv_score, 15)
                         + Weighted(max_score, 10)
             strong_indicators ==
                 (IF localized_score > Fx(55) THEN 1 ELSE 0)
                 + (IF extreme_score > Fx(50) THEN 1 ELSE 0)
                 + (IF gap_score > Fx(50) THEN 1 ELSE 0)
                 + (IF cv_score > Fx(60) THEN 1 ELSE 0)
                 + (IF max_score > Fx(60) THEN 1 ELSE 0)
             anomaly_score == IF strong_indicators >= 4
                              THEN Max(weighted, Fx(55)) ELSE weighted
         IN  \* line 373 formats small_cv, which line 326 binds only when
             \* small_mean > 0.01: otherwise the read raises UnboundLocalError
             IF cv_bound THEN [raises |-> None, score |-> anomaly_score]
             ELSE [raises |-> Some("UnboundLocalError"), score |-> 0]
    ELSE [raises |-> None, score |-> Min(st.scan_diff \div 30, Scale)]

\* _analyze_noise_variance, lines 417-429
_analyze_noise_variance(st) ==
    IF st.median_var > 0
    THEN Min(FDiv(st.std_var, st.median_var) \div 10, Scale)
    ELSE 0

\* _estimate_compression_quality, lines 480-487
_estimate_compression_quality(st) ==
    LET blockiness_score == Min(st.boundary_strength \div 2, Scale)
        quality_score_ == IF st.estimated_quality < 85
                          THEN ((95 - st.estimated_quality) * Scale) \div 50
                          ELSE 0
    IN  Max(blockiness_score, quality_score_)

\* Block statistics an ELA map can have (small_max - large_median >= 0 because a
\* 32x32 block is a union of 16x16 blocks)
DigitalStats ==
    [large_median : {Fx(100)},
     small_outlier_ratio : {0, Fx(10), Fx(50)},
     extreme_deviation : {0, Fx(600)},
     small_mean : {Fx(100)},
     small_std : {0, Fx(700)},
     percentile_gap : {0, Fx(300)},
     max_deviation : {0, Fx(1200)},
     scan_diff : {0}]
FlatStats ==
    [large_median : {0}, small_outlier_ratio : {0}, extreme_deviation : {0},
     small_mean : {Fx(1) \div 2}, small_std : {0}, percentile_gap : {0},
     max_deviation : {0, Fx(1200)}, scan_diff : {0}]
ScanStats ==
    [large_median : {Fx(1000)}, small_outlier_ratio : {0}, extreme_deviation : {0},
     small_mean : {Fx(1000)}, small_std : {0}, percentile_gap : {0},
     max_deviation : {0},
     scan_diff : {0, Fx(1500), Fx(2880), Fx(6000)}]
ElaStatsAll == DigitalStats \cup FlatStats \cup ScanStats
ElaStatsFew ==
    {st \in ElaStatsAll :
        \/ st \in FlatStats /\ st.max_deviation = 0
        \/ st \in ScanStats /\ st.scan_diff \in {0, Fx(2880)}}
ElaInputs == IF entry = "analyze" THEN ElaStatsAll ELSE ElaStatsFew

NoiseStatsAll == {[median_var |-> 0, std_var |-> 0],
                  [median_var |-> Fx(10), std_var |-> Fx(50)],
                  [median_var |-> Fx(10), std_var |-> Fx(300)]}
NoiseInputs == IF entry = "analyze" THEN NoiseStatsAll
               ELSE {st \in NoiseStatsAll : st.std_var = 0}

\* thin: the image is one pixel high or wide, so np.gradient (line 464) raises
QualityStatsAll ==
    [boundary_strength : {0, Fx(100), Fx(400)}, estimated_quality : {95, 75},
     thin : {FALSE}]
    \cup [boundary_strength : {0}, estimated_quality : {95}, thin : {TRUE}]
QualityInputs == IF entry = "analyze" THEN QualityStatsAll
                 ELSE {st \in QualityStatsAll :
                          st.boundary_strength = 0 /\ st.estimated_quality = 95}

----------------------------------------------------------------------------
(* ForensicsAgent._analyze_with_llm (forensics.py 153-228)                 *)

\* What ollama.generate can do: raise, answer without a 'response' key, answer
\* text that (after the markdown-fence stripping of lines 200-207) is not JSON,
\* JSON lacking a required key, JSON whose risk_score/confidence float() rejects,
\* or the requested object, with any float as risk_score.
LlmFailures ==
    {[kind |-> k, risk |-> 0, conf |-> 0, reasoning |-> ""] :
        k \in {"raises", "no_response_key", "non_json", "missing_key", "not_a_number"}}
LlmRiskValues == {Fx(50) * k : k \in (0 - 1)..MaxRiskSteps} \cup {Fx(90)}
LlmAnswers ==
    [kind : {"ok"}, risk : LlmRiskValues, conf : {Fx(50), Fx(90)},
     reasoning : {"", "cloned text block"}]
LlmRepliesAll == LlmFailures \cup LlmAnswers
LlmRepliesFew ==
    {r \in LlmRepliesAll :
        \/ r.kind = "raises"
        \/ r.kind = "ok" /\ r.risk = r.conf /\ r.reasoning # ""}
LlmInputs == IF entry = "analyze" THEN LlmRepliesAll ELSE LlmRepliesFew

\* Variant of lines 196-228 in which a failure yields a zero-score opinion
LlmZeroScoreFallback(reply) ==
    IF reply.kind = "ok"
    THEN Some([risk_score |-> reply.risk, confidence |-> reply.conf,
               reasoning |-> reply.reasoning, analysis |-> "analysis"])
    ELSE Some([risk_score |-> 0, confidence |-> 0, reasoning |-> "",
               analysis |-> ""])

\* lines 196-228: every failure, raised or not, ends in None
_analyze_with_llm(reply) ==
    IF reply.kind = "ok"
    THEN Some([risk_score |-> reply.risk, confidence |-> reply.conf,
               reasoning |-> reply.reasoning, analysis |-> "analysis"])
    ELSE None

----------------------------------------------------------------------------
(* ForensicsAgent.analyze (forensics.py 35-129), one action per statement  *)

\* line 46
CombineScores(ela, noise, quality) ==
    Weighted(ela, 50) + Weighted(noise, 30) + Weighted(quality, 20)

\* Variant of line 73 in which a higher LLM risk lowers the score
LlmAdjustInverted(combined, risk) ==
    Weighted(combined, 60) + Weighted(Scale - risk, 40)

\* line 73
LlmAdjust(combined, risk) == Weighted(combined, 60) + Weighted(risk, 40)

\* line 84
PrimaryThreshold(combined) == combined > Fx(75)

\* lines 89-94: the value of is_high_risk after the strong-indicator block
StrongIndicators(high, ela, combined) ==
    IF ela > Fx(95) THEN TRUE
    ELSE IF combined > Fx(65) /\ ela > Fx(75) THEN TRUE
    ELSE high

\* lines 97-99: the condition of the LLM override
LlmOverrides(conf, risk) ==
    /\ IsSome(conf) /\ Val(conf) > Fx(85)
    /\ IsSome(risk) /\ Val(risk) > Fx(80)

\* lines 102-110
StatusOf(high, combined, reasoning) ==
    IF high
    THEN IF IsSome(reasoning) /\ Val(reasoning) # ""
         THEN "High Risk - Possible Digital Manipulation Detected | LLM Insight: "
              \o Val(reasoning)
         ELSE "High Risk - Possible Digital Manipulation Detected"
    ELSE IF combined > Fx(50) THEN "Warning - Minor Anomalies Detected"
    ELSE "Pass - Integrity Intact"

\* lines 118-119: round(x, 2) if x else None (0.0 is falsy)
RoundIfTruthy(o) == IF IsSome(o) /\ Val(o) # 0 THEN Some(Round2(Val(o))) ELSE None

\* Variant of line 123 that handles image-decoding errors only
AnalyzeCatchesDecodeOnly(exc) == exc = "UnidentifiedImageError"

\* line 123: except Exception catches every exception a stage can raise
AnalyzeCatches(exc) == TRUE

\* lines 124-129
ErrorResult(exc) ==
    [manipulation_score |-> 0, is_high_risk |-> FALSE,
     status |-> "Error analyzing image: " \o exc, details |-> <<exc>>,
     llm_analysis |-> None, llm_risk_score |-> None, llm_confidence |-> None,
     llm_reasoning |-> None]

InAnalyze ==
    pc \in {"analyze", "ela", "noise", "quality", "combine", "llm", "llm_adjust",
            "threshold", "indicators", "override", "result", "except"}

\* Raise exc inside analyze's try block
AnalyzeRaise(exc) ==
    /\ fault' = Some(exc)
    /\ pc' = IF AnalyzeCatches(exc) THEN "except" ELSE "analyze_raised"

\* Whether PIL decodes the bytes: known for the bytes of a request, either way
\* for a direct call
Decodes ==
    IF image_bytes = None THEN BOOLEAN
    ELSE {Val(image_bytes) \in {"jpeg", "png", "gif", "too_large"}}

\* line 37: Image.open(...).convert("RGB")
AnalyzeOpen ==
    /\ pc = "analyze"
    /\ \E decodes \in Decodes :
          IF decodes
          THEN pc' = "ela" /\ fault' = fault
          ELSE AnalyzeRaise("UnidentifiedImageError")
    /\ UNCHANGED nonForensicsVars
    /\ UNCHANGED <<llm_enabled, ela_stats, ela_score, noise_score, quality_score,
                   combined_score, llm_response, llm_result, llm_risk_score, llm_confidence,
                   is_high_risk, forensics_data, llm_calls, analyze_returns>>

\* line 40
AnalyzeEla ==
    /\ pc = "ela"
    /\ \E st \in ElaInputs :
          LET r == _perform_ela(st)
          IN  /\ ela_stats' = Some(st)
              /\ IF IsSome(r.raises)
                 THEN AnalyzeRaise(Val(r.raises)) /\ ela_score' = ela_score
                 ELSE ela_score' = Some(r.score) /\ pc' = "noise" /\ fault' = fault
    /\ UNCHANGED nonForensicsVars
    /\ UNCHANGED <<llm_enabled, noise_score, quality_score,
                   combined_score, llm_response, llm_result, llm_risk_score, llm_confidence,
                   is_high_risk, forensics_data, llm_calls, analyze_returns>>

\* line 41
AnalyzeNoise ==
    /\ pc = "noise"
    /\ \E st \in NoiseInputs :
          /\ noise_score' = Some(_analyze_noise_variance(st))
          /\ pc' = "quality" /\ fault' = fault
    /\ UNCHANGED nonForensicsVars
    /\ UNCHANGED <<llm_enabled, ela_stats, ela_score, quality_score,
                   combined_score, llm_response, llm_result, llm_risk_score, llm_confidence,
                   is_high_risk, forensics_data, llm_calls, analyze_returns>>

\* line 42
AnalyzeQuality ==
    /\ pc = "quality"
    /\ \E st \in QualityInputs :
          IF st.thin
          THEN AnalyzeRaise("ValueError") /\ quality_score' = quality_score
          ELSE /\ quality_score' = Some(_estimate_compression_quality(st))
               /\ pc' = "combine" /\ fault' = fault
    /\ UNCHANGED nonForensicsVars
    /\ UNCHANGED <<llm_enabled, ela_stats, ela_score, noise_score,
                   combined_score, llm_response, llm_result, llm_risk_score, llm_confidence,
                   is_high_risk, forensics_data, llm_calls, analyze_returns>>

\* line 46, and the test of line 57
AnalyzeCombine ==
    /\ pc = "combine"
    /\ combined_score' = Some(CombineScores(Val(ela_score), Val(noise_score),
                                            Val(quality_score)))
    /\ pc' = IF llm_enabled THEN "llm" ELSE "threshold"
    /\ UNCHANGED nonForensicsVars
    /\ UNCHANGED <<llm_enabled, ela_stats, ela_score, noise_score, quality_score,
                   llm_response, llm_result, llm_risk_score, llm_confidence,
                   is_high_risk, fault, forensics_data, llm_calls, analyze_returns>>

\* lines 58-64: the call of _analyze_with_llm
AnalyzeLlm ==
    /\ pc = "llm"
    /\ \E reply \in LlmInputs :
          /\ llm_response' = Some(reply.kind)
          /\ llm_result' = _analyze_with_llm(reply)
    /\ llm_calls' = llm_calls + 1
    /\ pc' = "llm_adjust"
    /\ UNCHANGED nonForensicsVars
    /\ UNCHANGED <<llm_enabled, ela_stats, ela_score, noise_score, quality_score,
                   combined_score, llm_risk_score, llm_confidence,
                   is_high_risk, fault, forensics_data, analyze_returns>>

\* lines 186-193: ollama.generate never answers
AnalyzeLlmHangs ==
    /\ pc = "llm" /\ ~HasTimeout("ollama")
    /\ llm_calls' = llm_calls + 1
    /\ pc' = BlockedIn("ollama")
    /\ UNCHANGED nonForensicsVars
    /\ UNCHANGED <<llm_enabled, ela_stats, ela_score, noise_score, quality_score,
                   combined_score, llm_response, llm_result, llm_risk_score, llm_confidence,
                   is_high_risk, fault, forensics_data, analyze_returns>>

\* lines 65-74
AnalyzeLlmAdjust ==
    /\ pc = "llm_adjust"
    /\ IF IsSome(llm_result)
       THEN /\ llm_risk_score' = Some(Val(llm_result).risk_score)
            /\ llm_confidence' = Some(Val(llm_result).confidence)
            /\ combined_score' = Some(LlmAdjust(Val(combined_score),
                                                Val(llm_result).risk_score))
       ELSE UNCHANGED <<llm_risk_score, llm_confidence, combined_score>>
    /\ pc' = "threshold"
    /\ UNCHANGED nonForensicsVars
    /\ UNCHANGED <<llm_enabled, ela_stats, ela_score, noise_score, quality_score,
                   llm_response, llm_result, is_high_risk, fault, forensics_data, llm_calls,
                   analyze_returns>>

\* line 84
AnalyzeThreshold ==
    /\ pc = "threshold"
    /\ is_high_risk' = Some(PrimaryThreshold(Val(combined_score)))
    /\ pc' = "indicators"
    /\ UNCHANGED nonForensicsVars
    /\ UNCHANGED <<llm_enabled, ela_stats, ela_score, noise_score, quality_score,
                   combined_score, llm_response, llm_result, llm_risk_score, llm_confidence,
                   fault, forensics_data, llm_calls, analyze_returns>>

\* lines 89-94
AnalyzeIndicators ==
    /\ pc = "indicators"
    /\ is_high_risk' = Some(StrongIndicators(Val(is_high_risk), Val(ela_score),
                                             Val(combined_score)))
    /\ pc' = "override"
    /\ UNCHANGED nonForensicsVars
    /\ UNCHANGED <<llm_enabled, ela_stats, ela_score, noise_score, quality_score,
                   combined_score, llm_response, llm_result, llm_risk_score, llm_confidence,
                   fault, forensics_data, llm_calls, analyze_returns>>

\* lines 97-100
AnalyzeOverride ==
    /\ pc = "override"
    /\ is_high_risk' = IF LlmOverrides(llm_confidence, llm_risk_score)
                       THEN Some(TRUE) ELSE is_high_risk
    /\ pc' = "result"
    /\ UNCHANGED nonForensicsVars
    /\ UNCHANGED <<llm_enabled, ela_stats, ela_score, noise_score, quality_score,
                   combined_score, llm_response, llm_result, llm_risk_score, llm_confidence,
                   fault, forensics_data, llm_calls, analyze_returns>>

\* lines 48-49, 74, 100: the entries of debug_metadata, by kind
DetailsOf(adjusted, overridden) ==
    <<"ELA", "Noise", "Quality", "Combined Score">>
    \o (IF adjusted THEN <<"LLM-Adjusted Score">> ELSE <<>>)
    \o (IF overridden THEN <<"LLM High Confidence Override: HIGH RISK">> ELSE <<>>)

\* lines 102-121
AnalyzeResult ==
    /\ pc = "result"
    /\ forensics_data' = Some(
          [manipulation_score |-> Round2(Val(combined_score)),
           is_high_risk |-> Val(is_high_risk),
           status |-> StatusOf(Val(is_high_risk), Val(combined_score),
                               IF IsSome(llm_result)
                               THEN Some(Val(llm_result).reasoning) ELSE None),
           details |-> DetailsOf(IsSome(llm_result),
                                 LlmOverrides(llm_confidence, llm_risk_score)),
           llm_analysis |-> IF IsSome(llm_result)
                            THEN Some(Val(llm_result).analysis) ELSE None,
           llm_risk_score |-> RoundIfTruthy(llm_risk_score),
           llm_confidence |-> RoundIfTruthy(llm_confidence),
           llm_reasoning |-> IF IsSome(llm_result)
                             THEN Some(Val(llm_result).reasoning) ELSE None])
    /\ analyze_returns' = analyze_returns + 1
    /\ pc' = "analyze_returned"
    /\ UNCHANGED nonForensicsVars
    /\ UNCHANGED <<llm_enabled, ela_stats, ela_score, noise_score, quality_score,
                   combined_score, llm_response, llm_result, llm_risk_score, llm_confidence,
                   is_high_risk, fault, llm_calls>>

\* lines 123-129
AnalyzeExcept ==
    /\ pc = "except"
    /\ forensics_data' = Some(ErrorResult(Val(fault)))
    /\ analyze_returns' = analyze_returns + 1
    /\ pc' = "analyze_returned"
    /\ UNCHANGED nonForensicsVars
    /\ UNCHANGED <<llm_enabled, ela_stats, ela_score, noise_score, quality_score,
                   combined_score, llm_response, llm_result, llm_risk_score, llm_confidence,
                   is_high_risk, fault, llm_calls>>

NextAnalyze ==
    \/ AnalyzeOpen \/ AnalyzeEla \/ AnalyzeNoise \/ AnalyzeQuality
    \/ AnalyzeCombine \/ AnalyzeLlm \/ AnalyzeLlmHangs \/ AnalyzeLlmAdjust
    \/ AnalyzeThreshold
    \/ AnalyzeIndicators \/ AnalyzeOverride \/ AnalyzeResult \/ AnalyzeExcept

\* ForensicsAgent.__init__ (lines 24-33) and the locals of a fresh analyze call
FreshAnalyzeLocals ==
    /\ ela_stats = None
    /\ ela_score = None /\ noise_score = None /\ quality_score = None
    /\ combined_score = None /\ llm_response = None /\ llm_result = None
    /\ llm_risk_score = None /\ llm_confidence = None
    /\ is_high_risk = None /\ fault = None /\ forensics_data = None
    /\ llm_calls = 0 /\ analyze_returns = 0
InitForensics == llm_enabled \in BOOLEAN /\ FreshAnalyzeLocals
\* no ForensicsAgent takes part in the run
IdleForensics == llm_enabled = FALSE /\ FreshAnalyzeLocals

\* A direct call agent.analyze(image_bytes), as test_llm_integration.py makes
InitAnalyze ==
    /\ entry = "analyze" /\ pc = "analyze" /\ InitForensics
    /\ NoRegistry /\ IdleTrust /\ IdleVerify /\ FreshExtractLocals /\ IdleRequest
SpecAnalyze == InitAnalyze /\ [][NextAnalyze]_vars

----------------------------------------------------------------------------
(* Properties of ForensicsAgent.analyze                                    *)

AnalyzeReturnedNormally == pc = "analyze_returned" /\ fault = None
StatisticalScore ==
    CombineScores(Val(ela_score), Val(noise_score), Val(quality_score))

\* C7: the manipulation score analyze returns lies in [0,1] for every input,
\* whatever number the LLM stage returns as risk_score.
C7_ScoreInUnitInterval ==
    pc = "analyze_returned" =>
        /\ Val(forensics_data).manipulation_score >= 0
        /\ Val(forensics_data).manipulation_score <= Scale

\* C8: with the LLM stage available, it is invoked exactly when the statistical
\* score exceeds 0.4 or the ELA score exceeds 0.95.
C8_LlmInvokedIffEscalated ==
    (AnalyzeReturnedNormally /\ llm_enabled) =>
        (llm_calls > 0 <=> (StatisticalScore > Fx(40) \/ Val(ela_score) > Fx(95)))

\* C9: whenever the ELA score analyze computed exceeds 0.95, the result analyze
\* returns has is_high_risk = true, whatever the other detector stages and the
\* LLM stage do.
C9_HardIndicatorForcesHighRisk ==
    (pc = "analyze_returned" /\ IsSome(ela_score) /\ Val(ela_score) > Fx(95))
        => Val(forensics_data).is_high_risk

\* C10: analyze returns exactly one ForensicsResult and never raises; a fault in
\* decoding or in a detector stage yields score 0.0, is_high_risk = false, and
\* the fault in status and details.
C10_AnalyzeAlwaysReturnsOneResult ==
    /\ pc # "analyze_raised"
    /\ InAnalyze => (analyze_returns = 0 /\ ENABLED NextAnalyze)
    /\ pc = "analyze_returned" => (analyze_returns = 1 /\ IsSome(forensics_data))
    /\ (pc = "analyze_returned" /\ IsSome(fault)) =>
          /\ Val(forensics_data).manipulation_score = 0
          /\ Val(forensics_data).is_high_risk = FALSE
          /\ Val(forensics_data).status = "Error analyzing image: " \o Val(fault)
          /\ Val(forensics_data).details = <<Val(fault)>>

\* A detector stage (the ELA report on a flat image) faulted and analyze returned
\* the error result.
C10_Witness ==
    /\ pc = "analyze_returned" /\ fault = Some("UnboundLocalError")
    /\ Val(forensics_data).status = "Error analyzing image: UnboundLocalError"

----------------------------------------------------------------------------
(* The trust gate as a function: is_trusted on bounded URLs                *)

InitTrust ==
    /\ entry = "is_trusted" /\ pc = "is_trusted"
    /\ IdleForensics /\ InitRegistry /\ IdleVerify /\ FreshExtractLocals /\ IdleRequest
    /\ trust_url \in TrustUrls /\ trust_result = None
NextTrust == IsTrustedCall
SpecTrust == InitTrust /\ [][NextTrust]_vars

\* The gate of the specification: strip one leading "www.", then exact or
\* dotted-suffix membership
HostWithoutLeadingWww(url) ==
    LET host == Lower(Netloc(url))
    IN  IF StartsWith(host, "www.") THEN From(host, 4) ELSE host
GateOfSpec(url) ==
    LET host == HostWithoutLeadingWww(url)
    IN  \/ host \in trusted_domains
        \/ \E trusted \in trusted_domains : EndsWith(host, "." \o trusted)

\* C4: is_trusted accepts a URL if and only if its host, with one leading "www."
\* removed, is a trusted domain or a dotted subdomain of one.
C4_TrustGateExactOrDottedSuffix ==
    pc = "is_trusted_returned" => Val(trust_result) = GateOfSpec(trust_url)

----------------------------------------------------------------------------
(* VerificationService.verify called directly                              *)

InitVerify ==
    /\ entry = "verify" /\ pc = "verify"
    /\ IdleForensics /\ InitRegistry /\ IdleTrust /\ FreshExtractLocals /\ IdleRequest
    /\ data \in {Some(d) : d \in ExtractionResults} /\ FreshVerifyLocals
SpecVerify == InitVerify /\ [][NextVerify]_vars

\* the outcome of the three checks made before the loop of line 49
StopsBeforeLoop ==
    LET candidates == generate_urls(Val(data).issuer_url, Val(data).certificate_id,
                                    OrgNameStr)
    IN  \/ ~Truthy(Val(data).candidate_name)
        \/ candidates = <<>>
        \/ ~is_trusted(candidates[1])

\* C5: every URL handed to _fetch_httpx or _fetch_playwright during a verify
\* call passes the trust gate.
C5_EveryFetchedUrlIsTrusted == \A u \in fetched : is_trusted(u)

\* C6: a verify call that stops for want of a candidate name, of a candidate URL
\* or of a trusted first candidate returns is_verified = false and
\* trusted_domain = false, and has made no httpx, Playwright or OCR call.
C6_EarlyStopMakesNoCalls ==
    (pc = "verify_returned" /\ StopsBeforeLoop) =>
        /\ ~Val(verification_result).is_verified
        /\ ~Val(verification_result).trusted_domain
        /\ httpx_calls = 0 /\ playwright_calls = 0 /\ ocr_calls = 0
        /\ fetched = {}

\* verify stopped at the trust gate: a named candidate, a first URL that is not
\* trusted, and the security_check result
C6_Witness ==
    /\ pc = "verify_returned" /\ Truthy(Val(data).candidate_name)
    /\ urls # <<>> /\ ~is_trusted(urls[1])
    /\ Val(verification_result).method = "security_check"
    /\ ~Val(verification_result).is_verified
    /\ httpx_calls = 0 /\ playwright_calls = 0 /\ ocr_calls = 0

----------------------------------------------------------------------------
(* VerificationAgent.verify (either class) called directly                 *)

InitAgent ==
    /\ entry \in AgentVariants /\ pc = "agent_verify"
    /\ IdleForensics /\ InitRegistry /\ IdleTrust /\ FreshExtractLocals /\ IdleRequest
    /\ data \in {Some(d) : d \in ExtractionResults} /\ FreshVerifyLocals
SpecAgent == InitAgent /\ [][NextAgent]_vars

\* C3: a verify call returns is_verified = true only if it accepted the
\* candidate name as matching text it obtained from a fetched page.
C3_VerifiedOnlyOnNameMatch ==
    (pc = "verify_returned" /\ Val(verification_result).is_verified)
        => name_matched

----------------------------------------------------------------------------
(* ExtractionAgent.extract called directly                                 *)

InitExtract ==
    /\ entry = "extract" /\ pc = "extract"
    /\ IdleForensics /\ NoRegistry /\ IdleTrust /\ IdleVerify
    /\ FreshExtractLocals
    /\ file = None /\ response = None /\ NoCall /\ NoTasks
    /\ image_bytes \in {Some(b) : b \in {"jpeg", "png", "gif", "empty", "corrupt",
                                         "too_large"}}
SpecExtract == InitExtract /\ [][NextExtract]_vars

----------------------------------------------------------------------------
(* POST /verify: verify_certificate (main.py 46-127)                       *)

\* Uploads: the content type of the part (None when the part names none) and
\* what its bytes are
Uploads ==
    {[content_type |-> Some("application/pdf"), bytes |-> "pdf"],
     [content_type |-> Some("application/pdf"), bytes |-> "pdf_without_pages"],
     [content_type |-> Some("application/pdf"), bytes |-> "corrupt"],
     [content_type |-> Some("image/jpeg"), bytes |-> "jpeg"],
     [content_type |-> Some("image/gif"), bytes |-> "gif"],
     [content_type |-> Some("image/png"), bytes |-> "empty"],
     [content_type |-> Some("image/jpeg"), bytes |-> "corrupt"],
     [content_type |-> Some("image/jpeg"), bytes |-> "too_large"],
     [content_type |-> Some("text/plain"), bytes |-> "text"],
     [content_type |-> None, bytes |-> "jpeg"]}

HttpError(status, detail) ==
    [status |-> status, detail |-> detail, final_verdict |-> None,
     forensics |-> None, extraction |-> None, verification |-> None]

\* lines 57-81: the bytes handed on, or the error response
Preprocess ==
    /\ pc = "verify_certificate"
    /\ LET upload == Val(file)
       IN  IF upload.content_type = None
           THEN \* file.content_type.startswith raises AttributeError (line 77)
                /\ response' = Some(HttpError(500, "Internal Server Error"))
                /\ pc' = "responded" /\ UNCHANGED image_bytes
           ELSE IF Val(upload.content_type) = "application/pdf"
           THEN IF upload.bytes = "pdf"
                THEN /\ image_bytes' = Some("png")
                     /\ pc' = "analyze" /\ UNCHANGED response
                ELSE /\ response' = Some(HttpError(400, "Failed to process PDF: "))
                     /\ pc' = "responded" /\ UNCHANGED image_bytes
           ELSE IF StartsWith(Val(upload.content_type), "image/")
           THEN /\ image_bytes' = Some(upload.bytes)
                /\ pc' = "analyze" /\ UNCHANGED response
           ELSE /\ response' = Some(HttpError(400,
                                 "File must be an image (JPEG/PNG) or a PDF."))
                /\ pc' = "responded" /\ UNCHANGED image_bytes
    /\ UNCHANGED <<entry, file, forensicsVars, registryVars, trustVars, verifyVars,
                   extractVars, scannerVars, callVars, taskVars>>

\* line 86: analyze has returned; its locals are gone
StageForensics ==
    /\ entry = "verify_certificate" /\ pc = "analyze_returned"
    /\ pc' = "extract"
    /\ ela_stats' = None
    /\ ela_score' = None /\ noise_score' = None /\ quality_score' = None
    /\ combined_score' = None /\ llm_response' = None /\ llm_result' = None
    /\ llm_risk_score' = None /\ llm_confidence' = None
    /\ is_high_risk' = None /\ fault' = None
    /\ UNCHANGED <<llm_enabled, forensics_data, llm_calls, analyze_returns>>
    /\ UNCHANGED nonForensicsVars

\* Optional[str] field of ExtractionResult from a JSON value
FieldOf(j) == IF j.t = "null" THEN None ELSE Some(j.v)
\* ExtractionResult(**extraction_data), schemas.py 108-127: a number where a str
\* is declared is a ValidationError; issuer_name goes through validate_issuer
ExtractionResultRaises(d) ==
    \E k \in {"candidate_name", "certificate_id", "issuer_url"} :
        d.fields[k].t = "num"
ExtractionResultOf(d) ==
    [candidate_name |-> FieldOf(d.fields.candidate_name),
     certificate_id |-> FieldOf(d.fields.certificate_id),
     issuer_name |-> IF d.fields.issuer_name.t = "null" THEN None
                     ELSE fuzzy_match_issuer(d.fields.issuer_name.v),
     issuer_url |-> FieldOf(d.fields.issuer_url),
     issuer_org |-> None,
     raw_text_snippet |-> Some(d.raw_text_snippet),
     certificate_date |-> None]

\* lines 90-96: extract has returned; build the ExtractionResult and call verify
StageExtraction ==
    /\ entry = "verify_certificate" /\ pc = "extract_returned"
    /\ IF ExtractionResultRaises(Val(extraction_data))
       THEN /\ raised' = Some("ValidationError")
            /\ pc' = "main_except"
            /\ UNCHANGED data
       ELSE /\ data' = Some(ExtractionResultOf(Val(extraction_data)))
            /\ pc' = "verify"
            /\ UNCHANGED raised
    /\ raw_text' = "" /\ llm_content' = None
    /\ UNCHANGED <<extraction_data, tesseract_calls, ocr_passes, easyocr_calls, qr_calls,
                   mistral_calls, elapsed,
                   easyocr_reader>>
    /\ UNCHANGED <<entry, forensicsVars, registryVars, trustVars, requestVars,
                   scannerVars, callVars, taskVars>>
    /\ UNCHANGED <<urls, url_idx, best_score, page_text, screenshot_path, fetch_ret,
                   verification_result, fetched, httpx_calls, playwright_calls,
                   ocr_calls, name_matched>>

\* Variant of lines 99-106 that looks at the verification result first
FinalVerdictVerifiedFirst(forensics, verification) ==
    IF verification.is_verified THEN "VERIFIED"
    ELSE IF forensics.is_high_risk THEN "FLAGGED (High Risk)"
    ELSE "UNVERIFIED"

\* lines 99-106
FinalVerdict(forensics, verification) ==
    IF forensics.is_high_risk THEN "FLAGGED (High Risk)"
    ELSE IF verification.is_verified THEN "VERIFIED"
    ELSE "UNVERIFIED"

\* lines 98-114
StageVerdict ==
    /\ entry = "verify_certificate" /\ pc = "verify_returned"
    /\ response' = Some(
          [status |-> 200, detail |-> "",
           final_verdict |-> Some(FinalVerdict(Val(forensics_data),
                                               Val(verification_result))),
           forensics |-> forensics_data, extraction |-> data,
           verification |-> verification_result])
    /\ pc' = "responded"
    /\ UNCHANGED <<entry, file, image_bytes, forensicsVars, registryVars, trustVars,
                   verifyVars, extractVars, scannerVars, callVars, taskVars>>

\* lines 116-127: the HTTP status an exception of the try block is turned into
StatusFor(e) ==
    IF IsValueError(e) THEN 400 ELSE IF IsTimeoutError(e) THEN 504 ELSE 500

MainExcept ==
    /\ pc = "main_except"
    /\ response' = Some(HttpError(StatusFor(Val(raised)), Val(raised)))
    /\ pc' = "responded"
    /\ UNCHANGED <<entry, file, image_bytes, forensicsVars, registryVars, trustVars,
                   verifyVars, extractVars, scannerVars, callVars, taskVars>>

Next ==
    \/ Preprocess
    \/ NextAnalyze \/ StageForensics
    \/ NextExtract \/ StageExtraction
    \/ NextVerify \/ StageVerdict
    \/ MainExcept

\* The module-level agents (lines 41-44) and one request
Init ==
    /\ entry = "verify_certificate" /\ pc = "verify_certificate"
    /\ InitForensics /\ InitRegistry /\ IdleTrust
    /\ data = None /\ FreshVerifyLocals /\ FreshExtractLocals
    /\ file \in {Some(u) : u \in Uploads}
    /\ image_bytes = None /\ response = None /\ NoCall /\ NoTasks
Spec == Init /\ [][Next]_vars

----------------------------------------------------------------------------
(* Properties of POST /verify                                              *)

Answered == pc = "responded" /\ Val(response).status = 200

\* C1: the final verdict is FLAGGED whenever forensics is high-risk, even when
\* verification succeeded; otherwise it is VERIFIED exactly when verification
\* returned is_verified = true, and UNVERIFIED in every other case.
C1_VerdictPrecedence ==
    Answered =>
        LET high == Val(Val(response).forensics).is_high_risk
            verified == Val(Val(response).verification).is_verified
            verdict == Val(Val(response).final_verdict)
        IN  /\ high => verdict = "FLAGGED (High Risk)"
            /\ (~high /\ verified) => verdict = "VERIFIED"
            /\ (~high /\ ~verified) => verdict = "UNVERIFIED"

\* A high-risk document whose verification succeeded is answered FLAGGED
C1_Witness ==
    /\ Answered
    /\ Val(Val(response).forensics).is_high_risk
    /\ Val(Val(response).verification).is_verified
    /\ Val(Val(response).final_verdict) = "FLAGGED (High Risk)"

\* the upload got past the content-type check and _validate_image_bytes
PassesInputValidation ==
    IsSome(image_bytes) /\ _validate_image_bytes(Val(image_bytes)) = None

\* C2: a request whose document passes input validation is answered with a
\* response carrying a final verdict, whatever the collaborators of extraction
\* do; no OCR or LLM fault becomes a request failure.
C2_ValidDocumentGetsVerdict ==
    (pc = "responded" /\ PassesInputValidation) =>
        /\ Val(response).status = 200
        /\ IsSome(Val(response).final_verdict)

----------------------------------------------------------------------------
(* Termination of the request                                              *)

\* C11: every call the request makes on an external collaborator (OCR, QR
\* scanner, LLM, HTTP client, browser, screenshot OCR) is bounded by an explicit
\* timeout, so no request is left waiting forever on a collaborator that never
\* returns.
C11_NoCallWaitsForever == ~Blocked

----------------------------------------------------------------------------
(* Browser sessions of the rendering fetch                                 *)

----------------------------------------------------------------------------
(* The verification cascade: early exit                                    *)

MatchMethods == {"dom_text_match", "dom_text_match_retry", "visual_ocr"}
VerifyAnswered == verification_result # None

\* service.py lines 61, 74, 82: a verified result carries a method tag and the
\* URL the loop is at
VerifiedCarriesMethodAndUrl ==
    (VerifyAnswered /\ Val(verification_result).is_verified) =>
        /\ Val(verification_result).method \in MatchMethods
        /\ Val(verification_result).verification_url = Some(CurrentUrl)
        /\ Val(verification_result).trusted_domain

\* the three returns of the loop body leave verify: no fetch or OCR call follows
NoCallAfterAnswer ==
    [][VerifyAnswered => UNCHANGED <<httpx_calls, playwright_calls, ocr_calls>>]_vars

\* C13: verify stops at the first accepted match, returning is_verified = true
\* with method dom_text_match, dom_text_match_retry or visual_ocr and the URL of
\* the match; and a fetched page whose text contains the candidate name yields a
\* verified verdict.
C13_FirstMatchStopsAndVerifies ==
    /\ VerifiedCarriesMethodAndUrl
    /\ (VerifyAnswered /\ name_fetched) => Val(verification_result).is_verified

----------------------------------------------------------------------------
(* The verification cascade: exhaustion                                    *)

\* the greatest similarity of the match attempts made, 0.0 when there was none
MaxSimilarity ==
    IF similarities = {} THEN 0
    ELSE CHOOSE m \in similarities : \A x \in similarities : x <= m

\* verify has returned from the loop of lines 49-84 without an accepted match
Exhausted ==
    /\ VerifyAnswered /\ ~StopsBeforeLoop
    /\ ~Val(verification_result).is_verified

\* C14 as stated: when no attempt on the first two candidate URLs is accepted,
\* verify returns is_verified = false, method "failed", trusted_domain = true and
\* a confidence score equal to the maximum similarity observed over the match
\* attempts of the call (0 when none produced text); faults of the fetches are
\* failed attempts and verify does not raise.
C14_FailedCarriesMaxSimilarity ==
    Exhausted =>
        /\ Val(verification_result).method = "failed"
        /\ Val(verification_result).trusted_domain
        /\ Val(verification_result).confidence_score = MaxSimilarity

\* C14 amended: the confidence score is the maximum similarity observed rounded
\* to two decimal places (round(best_score, 2), line 84); the rest as stated.
C14_FailedCarriesRoundedMaxSimilarity ==
    Exhausted =>
        /\ Val(verification_result).method = "failed"
        /\ Val(verification_result).trusted_domain
        /\ Val(verification_result).confidence_score = Round2(MaxSimilarity)
        /\ url_idx = Min(Len(urls), MaxUrlsTried)

\* both candidate URLs were tried, a rendering fetch faulted, some attempt scored
\* a similarity that is not a whole number of hundredths, and verify returned
\* "failed"
C14_Witness ==
    /\ Exhausted /\ url_idx = 2 /\ browser_fault # None
    /\ MaxSimilarity # Round2(MaxSimilarity)
    /\ Val(verification_result).method = "failed"

----------------------------------------------------------------------------
(* Candidate order: generate_urls on bounded arguments                     *)

\* the arguments of a direct call registry.generate_urls(url, cert_id, org_name),
\* held in the fields issuer_url, certificate_id and issuer_org
UrlRequests ==
    [candidate_name : {None}, certificate_id : {None, Some("UC-1")},
     issuer_name : {None},
     issuer_url : {None, Some("https://www.udemy.com/certificate/UC-1"),
                   Some("https://ude.my/UC-1"),
                   Some("https://www.coursera.org/verify/UC-1")},
     issuer_org : {None, Some("Acme Academy"), Some("Udemy"), Some("Coursera"),
                   Some("coursera"), Some("edX")},
     raw_text_snippet : {None}, certificate_date : {None}]

GenerateUrlsCall ==
    /\ pc = "generate_urls"
    /\ urls' = generate_urls(Val(data).issuer_url, Val(data).certificate_id,
                             OrgNameStr)
    /\ pc' = "generate_urls_returned"
    /\ UNCHANGED <<data, url_idx, best_score, page_text, screenshot_path,
                   fetch_ret, verification_result, fetched, httpx_calls,
                   playwright_calls, ocr_calls, name_matched>>
    /\ UNCHANGED nonVerifyVars

InitUrls ==
    /\ entry = "generate_urls" /\ pc = "generate_urls"
    /\ IdleForensics /\ InitRegistry /\ IdleTrust /\ FreshExtractLocals /\ IdleRequest
    /\ data \in {Some(d) : d \in UrlRequests} /\ FreshVerifyLocals
NextUrls == GenerateUrlsCall
SpecUrls == InitUrls /\ [][NextUrls]_vars

NoDuplicates(q) == \A i, j \in 1..Len(q) : q[i] = q[j] => i = j

\* the extracted URL, then the template URLs, then the registry URL
TemplatesBeforeRegistry(url, cert_id, org_name) ==
    Dedup((IF Truthy(url) THEN <<Val(url)>> ELSE <<>>)
          \o (IF org_name # "" /\ Truthy(cert_id)
              THEN PatternUrls(Lower(org_name), Val(cert_id))
                   \o CsvUrls(Lower(org_name), Val(cert_id))
              ELSE <<>>))

\* C15: generate_urls returns the extracted URL (if any), then the per-issuer
\* template URLs of the matched issuer, then the registry URL of an exact
\* organization-name match, without duplicates and in first-occurrence order.
C15_ExtractedThenTemplatesThenRegistry ==
    pc = "generate_urls_returned" =>
        /\ NoDuplicates(urls)
        /\ urls = TemplatesBeforeRegistry(Val(data).issuer_url,
                                          Val(data).certificate_id, OrgNameStr)

----------------------------------------------------------------------------
(* Certificate-id cleanup as a function: _clean_certificate_id on bounded  *)
(* ids, applied once and then to its own result                            *)

\* a run that calls a helper function directly
IdleRun ==
    /\ IdleForensics /\ NoRegistry /\ IdleTrust /\ IdleVerify /\ FreshExtractLocals
    /\ file = None /\ image_bytes = None /\ response = None

\* longest id enumerated
MaxIdLen == 4
\* the confusable characters next to digits, the separator rewritten to 1, a
\* letter and a blank
IdChars == {"O", "0", "l", "I", "1", "|", "A", " "}
RECURSIVE IdStrings(_)
IdStrings(n) ==
    IF n = 0 THEN {""}
    ELSE IdStrings(n - 1) \cup {s \o c : s \in IdStrings(n - 1), c \in IdChars}

\* line 98: a falsy id is returned as it is
CleanOrSame(cert_id) ==
    IF cert_id = "" THEN cert_id ELSE _clean_certificate_id(cert_id)

CleanCall ==
    /\ pc = "clean" /\ Len(call_results) < 2
    /\ call_results' = Append(call_results,
          CleanOrSame(IF call_results = <<>> THEN call_args[1]
                      ELSE call_results[Len(call_results)]))
    /\ UNCHANGED <<pc, call_args>>
    /\ UNCHANGED nonCallVars

InitClean ==
    /\ entry = "_clean_certificate_id" /\ pc = "clean" /\ IdleRun /\ NoTasks
    /\ call_args \in {<<s>> : s \in IdStrings(MaxIdLen) \ {""}}
    /\ call_results = <<>>
NextClean == CleanCall
SpecClean == InitClean /\ [][NextClean]_vars

\* C16: _clean_certificate_id is idempotent: cleaning the result of a cleaning
\* returns it unchanged, runs of O, l and I next to digits included.
C16_CleanIsIdempotent ==
    (entry = "_clean_certificate_id" /\ Len(call_results) = 2) =>
        call_results[2] = call_results[1]

----------------------------------------------------------------------------
(* The certificate id of a Udemy extraction                                *)

\* extract has returned its dictionary
Extracted == pc = "extract_returned" /\ IsSome(extraction_data)
ResultIssuer == Val(extraction_data).fields.issuer_name
ResultId == Val(extraction_data).fields.certificate_id

\* C17: whenever the cleaned issuer name contains "udemy" (case-insensitive),
\* the certificate_id of the extraction result is absent, or starts with "UC-"
\* and is longer than 15 characters.
C17_UdemyIdHasShapeOrIsAbsent ==
    (Extracted /\ Contains(Lower(JText(ResultIssuer)), "udemy")) =>
        \/ ~JTruthy(ResultId)
        \/ StartsWith(JText(ResultId), "UC-") /\ Len(JText(ResultId)) > 15

----------------------------------------------------------------------------
(* Input validation of extract                                             *)

\* uploads that are empty, larger than 10 MB, undecodable, or of a format
\* extract does not support
BadImages == {"empty", "too_large", "corrupt", "gif"}
BadImageGiven == IsSome(image_bytes) /\ Val(image_bytes) \in BadImages

\* C18: for an empty, oversized, undecodable or unsupported-format image extract
\* raises a validation error before any OCR, 2D-code scan or LLM call of its
\* own, and POST /verify answers with that error and no verdict.
C18_BadImageFailsBeforeAnyCall ==
    BadImageGiven =>
        /\ tesseract_calls = 0 /\ easyocr_calls = 0 /\ qr_calls = 0
        /\ mistral_calls = 0
        /\ extraction_data = None /\ verification_result = None
        /\ pc \in {"main_except", "extract_raised"} => IsValueError(Val(raised))
        /\ pc = "responded" =>
              /\ Val(response).status = 400
              /\ Val(response).detail = "ValueError"
              /\ Val(response).final_verdict = None

\* an image above 10 MB went through the forensics stage, was rejected by
\* extract, and the request was answered with the validation error
C18_Witness ==
    /\ pc = "responded" /\ image_bytes = Some("too_large")
    /\ IsSome(forensics_data) /\ raised = Some("ValueError")
    /\ Val(response).status = 400

----------------------------------------------------------------------------
(* The two name matchers as functions: _fuzzy_match and verify_screenshot  *)
(* on bounded names and texts, as given and after normalization            *)

MatchNames == {"John Doe", "JOHN DOE", "J. Doe", "john doe"}
MatchTexts ==
    {"Awarded to John Doe", "Awarded to: JOHN DOE.", "john. doe", "J. Doe", "J Doe",
     "Jon Doe", "Jon. Doe!", "Access denied", "ACCESS DENIED!", "johndoe"}

\* SequenceMatcher(None, a, b).ratio() of service.py line 28, as difflib computes
\* it for the normalized names and texts above
SequenceRatio(a, b) ==
    CASE a = b -> Scale
      [] a = "j doe" /\ b = "access denied" -> 3333
      [] a = "j doe" /\ b = "awarded to john doe" -> 4167
      [] a = "j doe" /\ b = "john doe" -> 7692
      [] a = "j doe" /\ b = "johndoe" -> 6667
      [] a = "j doe" /\ b = "jon doe" -> 8333
      [] a = "john doe" /\ b = "access denied" -> 2857
      [] a = "john doe" /\ b = "awarded to john doe" -> 5926
      [] a = "john doe" /\ b = "j doe" -> 7692
      [] a = "john doe" /\ b = "johndoe" -> 9333
      [] a = "john doe" /\ b = "jon doe" -> 9333

\* what fetch_page_text hands to _fuzzy_match for the text
AsPageText(name, text) ==
    [body |-> text, length |-> Len(text),
     ratio |-> SequenceRatio(Normalize(Lower(name)), Normalize(Lower(text)))]

\* both matchers on one name and one text
BothMatchers(name, text) ==
    [page |-> _fuzzy_match(name, AsPageText(name, text), PageThreshold),
     visual |-> verify_screenshot(Some(ScreenshotPath), name, Some(text))]

\* the matchers are called on the name and the text as given
MatchCall ==
    /\ pc = "match_call"
    /\ call_results' = <<BothMatchers(call_args[1], call_args[2])>>
    /\ pc' = "match_normalized_call"
    /\ UNCHANGED call_args
    /\ UNCHANGED nonCallVars

\* and then on the same name and text in lower case without punctuation
MatchNormalizedCall ==
    /\ pc = "match_normalized_call"
    /\ call_results' = Append(call_results,
          BothMatchers(Normalize(Lower(call_args[1])), Normalize(Lower(call_args[2]))))
    /\ pc' = "match_returned"
    /\ UNCHANGED call_args
    /\ UNCHANGED nonCallVars

InitMatch ==
    /\ entry = "_fuzzy_match" /\ pc = "match_call" /\ IdleRun /\ NoTasks
    /\ call_args \in {<<n, t>> : n \in MatchNames, t \in MatchTexts}
    /\ call_results = <<>>
NextMatch == MatchCall \/ MatchNormalizedCall
SpecMatch == InitMatch /\ [][NextMatch]_vars

NameOccurs ==
    Contains(Normalize(Lower(call_args[2])), Normalize(Lower(call_args[1])))

\* service.py 23-28: the page-text matcher scores 1.0 when the normalized name
\* occurs in the normalized text, is unchanged by case and punctuation, and
\* accepts from 0.70
PageMatcherIsNormalizing ==
    pc = "match_returned" =>
        /\ NameOccurs => call_results[1].page[2] = Scale
        /\ call_results[1].page = call_results[2].page
        /\ call_results[1].page[1] <=> call_results[1].page[2] >= PageThreshold

\* C19: both name matchers score 1.0 when the normalized candidate name occurs
\* in the normalized text, their score is unchanged by case or punctuation
\* differences in the name or the text, and a match is accepted at similarity
\* >= 0.70 for page text and >= 0.65 for screenshot OCR text.
C19_MatchersIgnoreCaseAndPunctuation ==
    pc = "match_returned" =>
        /\ NameOccurs => /\ call_results[1].page[2] = Scale
                         /\ call_results[1].visual[2] = Scale
        /\ call_results[1].page[2] = call_results[2].page[2]
        /\ call_results[1].visual[2] = call_results[2].visual[2]
        /\ call_results[1].page[1] <=> call_results[1].page[2] >= PageThreshold
        /\ call_results[1].visual[1] <=> call_results[1].visual[2] >= OcrThreshold

----------------------------------------------------------------------------
(* Risk tiers of the forensics result                                      *)

\* analyze returned the result of lines 112-121 and the hard indicator
\* (ELA above 0.95) was not present
ReturnedWithoutHardIndicator ==
    /\ pc = "analyze_returned" /\ fault = None
    /\ IsSome(ela_score) /\ Val(ela_score) <= Fx(95)

\* C20: the risk tier follows the fused score: high-risk above 0.65, warning
\* between 0.4 and 0.65, pass below 0.4 (the hard-indicator override aside).
C20_TierFollowsFusedScore ==
    ReturnedWithoutHardIndicator =>
        LET score == Val(combined_score)
            result == Val(forensics_data)
        IN  /\ result.is_high_risk <=> score > Fx(65)
            /\ (score > Fx(40) /\ score <= Fx(65)) =>
                  result.status = "Warning - Minor Anomalies Detected"
            /\ score < Fx(40) => result.status = "Pass - Integrity Intact"

----------------------------------------------------------------------------
(* A document whose primary OCR reads nothing                              *)

\* _ocr_task made its four image_to_string attempts (lines 290, 295, 300, 305),
\* each retry because the text so far was short, and read nothing at all, so the
\* corner pass of line 308 was skipped
PrimaryOcrReadNothing == tesseract_calls = 4

AllFieldsEmpty(extraction) ==
    \A k \in {"candidate_name", "certificate_id", "issuer_name", "issuer_url"} :
        ~Truthy(extraction[k])

\* C21: if primary OCR yields fewer than 20 characters on every retry attempt,
\* extraction ends with all fields empty without raising, verification returns
\* the "no URL generated" outcome without any network call, and the final
\* verdict is UNVERIFIED.
C21_UnreadableDocumentIsUnverified ==
    (pc = "responded" /\ PrimaryOcrReadNothing) =>
        /\ Val(response).status = 200
        /\ AllFieldsEmpty(Val(Val(response).extraction))
        /\ Val(Val(response).verification).message = "No URL generated."
        /\ httpx_calls = 0 /\ playwright_calls = 0 /\ ocr_calls = 0
        /\ Val(Val(response).final_verdict) = "UNVERIFIED"

----------------------------------------------------------------------------
(* Candidates of an issuer known only by its platform name                 *)

\* the two entries of URL_PATTERNS["coursera"] with the id filled in
CourseraTemplates(cert_id) ==
    <<"https://www.coursera.org/verify/" \o cert_id,
      "https://www.coursera.org/account/accomplishments/certificate/" \o cert_id>>

\* verify was given no URL, a certificate id, and an issuer whose name contains
\* "coursera" and has no entry in the registry
CourseraByNameOnly ==
    /\ Truthy(Val(data).candidate_name)
    /\ ~Truthy(Val(data).issuer_url) /\ Truthy(Val(data).certificate_id)
    /\ Contains(Lower(OrgNameStr), "coursera")
    /\ ~\E e \in org_map : e[1] = Lower(OrgNameStr)

\* C22: with no extracted URL and no registry entry for the issuer, an issuer
\* name containing "coursera" together with a certificate id yields the
\* hardcoded Coursera template URLs as the candidate list, and the first
\* candidate passes the trust gate.
C22_CourseraTemplatesPassTheGate ==
    (CourseraByNameOnly /\ pc \notin {"verify", "generate"}) =>
        /\ urls = CourseraTemplates(Val(Val(data).certificate_id))
        /\ pc = "verify_returned" =>
              Val(verification_result).method \notin {"url_error", "security_check"}

\* the first Coursera template was let through the gate and fetched
C22_Witness ==
    /\ CourseraByNameOnly /\ pc = "verify_returned"
    /\ urls = CourseraTemplates("UC-1")
    /\ urls[1] \in fetched

----------------------------------------------------------------------------
(* Time spent by the extraction cascade                                    *)

\* The budget of the extraction cascade: what its first stage is allowed, since
\* nothing has been spent when that stage starts
ExtractBudget == StageTimeout("tesseract")
TimedStages == {"tesseract", "easyocr", "mistral"}

\* C23: each cascade enforces one shared deadline: every stage is given only
\* the time remaining in the budget rather than a fresh timeout, so the total
\* time of a cascade never exceeds its budget however many stages run.
C23_StagesShareOneDeadline ==
    /\ pc \in TimedStages => StageTimeout(pc) = ExtractBudget - elapsed
    /\ pc \in {"extract_returned", "extract_raised"} => elapsed <= ExtractBudget

----------------------------------------------------------------------------
(* Concurrent extract calls on one agent: each call's _ocr_task of          *)
(* _perform_easyocr (ext.py 341-359) runs in a worker thread of             *)
(* asyncio.to_thread (line 368) and calls _get_easyocr_reader (47-58)       *)

MaxThreads == 2
MaxCallsPerThread == 2
Threads == 1..MaxThreads

\* line 342: a call's _ocr_task enters _get_easyocr_reader
OcrTaskStart(t) ==
    /\ tasks[t].pc = "idle" /\ tasks[t].calls < MaxCallsPerThread
    /\ tasks' = [tasks EXCEPT ![t].pc = "test", ![t].calls = @ + 1]
    /\ UNCHANGED <<easyocr_reader, reader_inits, reader_assigned>>
    /\ UNCHANGED nonReaderVars

\* line 49: if self.easyocr_reader is None; lines 50-52 start the construction
ReaderTest(t) ==
    /\ tasks[t].pc = "test"
    /\ IF easyocr_reader = "None"
       THEN /\ tasks' = [tasks EXCEPT ![t].pc = "construct"]
            /\ reader_inits' = reader_inits + 1
       ELSE /\ tasks' = [tasks EXCEPT ![t].pc = "return"]
            /\ UNCHANGED reader_inits
    /\ UNCHANGED <<easyocr_reader, reader_assigned>>
    /\ UNCHANGED nonReaderVars

\* line 53: easyocr.Reader(...) returns and the handle is stored
ReaderConstruct(t) ==
    /\ tasks[t].pc = "construct"
    /\ easyocr_reader' = "Reader"
    /\ reader_assigned' = Append(reader_assigned, "Reader")
    /\ tasks' = [tasks EXCEPT ![t].pc = "return"]
    /\ UNCHANGED reader_inits
    /\ UNCHANGED nonReaderVars

\* lines 55-57: the import or the construction raised; False is stored
ReaderConstructFails(t) ==
    /\ tasks[t].pc = "construct"
    /\ easyocr_reader' = "False"
    /\ reader_assigned' = Append(reader_assigned, "False")
    /\ tasks' = [tasks EXCEPT ![t].pc = "return"]
    /\ UNCHANGED reader_inits
    /\ UNCHANGED nonReaderVars

\* line 58, the condition of the conditional expression
ReaderReturnTest(t) ==
    /\ tasks[t].pc = "return"
    /\ IF easyocr_reader = "Reader"
       THEN tasks' = [tasks EXCEPT ![t].pc = "return_reader"]
       ELSE tasks' = [tasks EXCEPT ![t].pc = "idle", ![t].got = "None"]
    /\ UNCHANGED <<easyocr_reader, reader_inits, reader_assigned>>
    /\ UNCHANGED nonReaderVars

\* line 58, the value returned: the field is read a second time; lines 343-359
\* then read the image with it, or return "" when it is falsy
ReaderReturnValue(t) ==
    /\ tasks[t].pc = "return_reader"
    /\ tasks' = [tasks EXCEPT ![t].pc = "idle", ![t].got = easyocr_reader]
    /\ UNCHANGED <<easyocr_reader, reader_inits, reader_assigned>>
    /\ UNCHANGED nonReaderVars

InitReader ==
    /\ entry = "_perform_easyocr" /\ pc = "threads" /\ IdleRun /\ NoCall
    /\ tasks = [t \in Threads |-> [pc |-> "idle", calls |-> 0, got |-> "None"]]
    /\ reader_inits = 0 /\ reader_assigned = <<>> /\ NoProofs
NextReader ==
    \E t \in Threads :
        \/ OcrTaskStart(t) \/ ReaderTest(t) \/ ReaderConstruct(t)
        \/ ReaderConstructFails(t) \/ ReaderReturnTest(t) \/ ReaderReturnValue(t)
SpecReader == InitReader /\ [][NextReader]_vars

\* C24: under any interleaving of concurrent extract calls, the secondary OCR
\* reader is initialized at most once: two initializations never run or
\* complete for the same agent, a successful handle is reused by every later
\* call, and after an initialization failure the handle stays Unavailable and
\* no further initialization is attempted.
C24_ReaderInitializedAtMostOnce ==
    /\ reader_inits <= 1
    /\ Len(reader_assigned) <= 1
    /\ \A t \in Threads :
          (tasks[t].pc = "idle" /\ tasks[t].calls > 0 /\ reader_assigned # <<>>) =>
              tasks[t].got = (IF reader_assigned[1] = "Reader" THEN "Reader" ELSE "None")

----------------------------------------------------------------------------
(* Concurrent verification attempts: the screenshot of _fetch_playwright    *)
(* (scanner.py 85-97) and its reader verify_screenshot (service.py 76-77,   *)
(* visual.py 31-36), for coroutines that interleave at their awaits         *)

MaxSeconds == 2
Attempts == 1..MaxThreads
\* the page each attempt renders
AttemptUrl(a) == IF a = 1 THEN "https://www.udemy.com/certificate/UC-1"
                 ELSE "https://www.udemy.com/certificate/UC-2"

\* lines 86-89: filename = f"proof_{int(time.time())}.png"
ProofPath(seconds) == "proofs/proof_" \o ToString(seconds) \o ".png"

\* the clock reaches the next second
Tick ==
    /\ pc = "attempts" /\ now < MaxSeconds
    /\ now' = now + 1
    /\ UNCHANGED <<tasks, proof_dir>>
    /\ UNCHANGED nonProofVars

\* lines 85-88, after the page was loaded (lines 66-83)
ProofName(a) ==
    /\ tasks[a].pc = "rendered"
    /\ tasks' = [tasks EXCEPT ![a].pc = "screenshot",
                              ![a].screenshot_path = Some(ProofPath(now))]
    /\ UNCHANGED <<now, proof_dir>>
    /\ UNCHANGED nonProofVars

\* line 91: page.screenshot writes the file, replacing one of the same name
ProofScreenshot(a) ==
    /\ tasks[a].pc = "screenshot"
    /\ LET path == Val(tasks[a].screenshot_path)
       IN  proof_dir' = [p \in DOMAIN proof_dir \cup {path} |->
                            IF p = path THEN tasks[a].url ELSE proof_dir[p]]
    /\ tasks' = [tasks EXCEPT ![a].pc = "inner_text"]
    /\ UNCHANGED now
    /\ UNCHANGED nonProofVars

\* lines 92-97 and service.py 64-71: inner_text and browser.close are awaited,
\* the path is returned, and the text is found not to match
ProofReturn(a) ==
    /\ tasks[a].pc = "inner_text"
    /\ tasks' = [tasks EXCEPT ![a].pc = "visual"]
    /\ UNCHANGED <<now, proof_dir>>
    /\ UNCHANGED nonProofVars

\* service.py 76-77 with visual.py 33: Image.open(image_path)
ProofRead(a) ==
    /\ tasks[a].pc = "visual"
    /\ tasks' = [tasks EXCEPT ![a].pc = "done",
                              ![a].read = Some(proof_dir[Val(tasks[a].screenshot_path)])]
    /\ UNCHANGED <<now, proof_dir>>
    /\ UNCHANGED nonProofVars

InitProofs ==
    /\ entry = "_fetch_playwright" /\ pc = "attempts" /\ IdleRun /\ NoCall
    /\ reader_inits = 0 /\ reader_assigned = <<>>
    /\ tasks = [a \in Attempts |->
                   [pc |-> "rendered", url |-> AttemptUrl(a),
                    screenshot_path |-> None, read |-> None]]
    /\ now = 0 /\ proof_dir = <<>>
NextProofs ==
    \/ Tick
    \/ \E a \in Attempts :
          ProofName(a) \/ ProofScreenshot(a) \/ ProofReturn(a) \/ ProofRead(a)
SpecProofs == InitProofs /\ [][NextProofs]_vars

\* C25: when two verification attempts run concurrently, the screenshot an
\* attempt passes to screenshot OCR is the one captured from that attempt's own
\* URL: a concurrent rendering fetch (in particular one finishing within the
\* same clock second) never overwrites or substitutes the screenshot file
\* another attempt is about to read.
C25_AttemptReadsItsOwnScreenshot ==
    \A a \in Attempts :
        tasks[a].pc = "done" => tasks[a].read = Some(tasks[a].url)

----------------------------------------------------------------------------
(* Order and conditions of the fetch stages of one candidate URL            *)

\* the text at hand is accepted by the matcher of lines 56 and 70
TextMatches ==
    /\ page_text # None /\ Val(page_text).body # ""
    /\ _fuzzy_match(CandidateName, Val(page_text), PageThreshold)[1]
\* verify is done with its first candidate
FirstUrlDone == url_idx = 1 /\ pc \in {"loop", "verify_returned"}
MatchedByText ==
    /\ pc = "verify_returned"
    /\ Val(verification_result).method \in {"dom_text_match", "dom_text_match_retry"}

\* C26: for each candidate URL the fetch stages run in the order fast fetch,
\* rendering fetch, screenshot OCR: the rendering fetch is made exactly when the
\* fast fetch failed, returned fewer than 500 characters, or returned text that
\* did not match; screenshot OCR is run exactly when a screenshot was captured
\* and no page text from that URL matched.
C26_StagesRunInOrderWhenNeeded ==
    /\ (pc = "fetch_browser" /\ fetch_ret = "match") =>
          \/ page_text = None
          \/ Val(page_text).length < 500
          \/ ~TextMatches
    /\ (pc = "fetch_browser" /\ fetch_ret = "match_retry") => ~TextMatches
    /\ FirstUrlDone =>
          /\ playwright_calls = 0 =>
                MatchedByText /\ Val(page_text).length >= 500
          /\ playwright_calls > 0 => httpx_calls > 0
          /\ ocr_calls > 0 => playwright_calls > 0
          /\ ocr_calls > 0 <=> (Truthy(screenshot_path) /\ ~MatchedByText)

----------------------------------------------------------------------------
(* Escalation from primary to secondary OCR                                *)

\* the completeness heuristic: a certificate-indicator keyword, an
\* organization-name keyword and more than 30 whitespace-separated words
LooksComplete(text) ==
    /\ \E word \in CertificateIndicators : Contains(Lower(text), word)
    /\ \E word \in OrganizationIndicators : Contains(Lower(text), word)
    /\ Len(Split(text)) > 30
\* _perform_easyocr has not been called on this agent (which started without a
\* reader): raw_text is the Tesseract text
SecondaryOcrNotInvoked == easyocr_reader = "None" /\ easyocr_calls = 0

\* C27: secondary OCR is invoked if and only if the primary OCR text fails the
\* completeness heuristic, where the heuristic holds exactly when the text
\* contains a certificate-indicator keyword, an organization-name keyword and
\* more than 30 whitespace-separated words; the decision uses only the primary
\* OCR text already computed.
C27_SecondaryOcrIffIncomplete ==
    /\ pc = "easyocr" =>
          /\ ~LooksComplete(raw_text)
          /\ qr_calls = 0 /\ mistral_calls = 0 /\ llm_content = None
    /\ (pc = "qr" /\ SecondaryOcrNotInvoked) => LooksComplete(raw_text)

\* a primary text with both keywords but too few words is escalated
C27_Witness ==
    /\ pc = "easyocr"
    /\ \E word \in CertificateIndicators : Contains(Lower(raw_text), word)
    /\ \E word \in OrganizationIndicators : Contains(Lower(raw_text), word)
    /\ Len(Split(raw_text)) <= 30

----------------------------------------------------------------------------
(* What the secondary OCR stage hands on                                   *)

Tokens(text) == {Split(text)[i] : i \in 1..Len(Split(text))}
\* the distinct whitespace-separated tokens of text that primary does not have
NovelTokens(text, primary) == Cardinality(Tokens(text) \ Tokens(primary))
\* raw_text' is the primary text with a secondary text of more than 5 novel
\* tokens appended on a new line
MergedWithNovelText ==
    \E text \in EasyOcrTexts :
        /\ NovelTokens(text, raw_text) > 5
        /\ raw_text' = raw_text \o "\n" \o text

\* C28: secondary OCR text is merged into the primary text only if it contains
\* more than 5 whitespace-separated tokens that do not occur in the primary
\* text; in every other case it is discarded and the text handed to the next
\* stage is exactly the primary OCR text.
C28_MergedOnlyWithNovelTokens ==
    [][pc = "easyocr" => (raw_text' = raw_text \/ MergedWithNovelText)]_vars

\* C28 as the code has it: an empty primary text is replaced by the secondary
\* text, whatever its tokens; a non-empty primary text is kept, or extended by a
\* secondary text with more than 5 distinct novel tokens.
C28_MergedOnlyWithNovelTokensUnlessEmpty ==
    [][pc = "easyocr" =>
          \/ raw_text' = raw_text
          \/ raw_text = "" /\ raw_text' \in EasyOcrTexts
          \/ raw_text # "" /\ MergedWithNovelText]_vars

\* a secondary text with seven novel tokens was appended to the primary text
C28_Witness ==
    /\ pc = "qr" /\ easyocr_calls = 1
    /\ raw_text = TextPartial \o "\n"
          \o "Udemy certificate UC-9ba43c6a-3983-495c awarded to John Doe verified online"

----------------------------------------------------------------------------
(* Parsing the LLM reply                                                   *)

\* extract failed while parsing the reply it received
ParseFailed ==
    /\ pc = "extract_except" /\ IsSome(llm_content)
    /\ Val(raised) \in {"JSONDecodeError", "ValueError"}
\* extract parsed the reply and went on to clean the fields
Parsed == pc = "clean"

\* C29: the LLM response is parsed by trying, in order, direct JSON parsing,
\* then the content of a markdown code fence, then the bracket-matched {...}
\* span; a parse failure is surfaced only after both fallback strategies have
\* been attempted and have failed, so a response whose fenced content is
\* invalid but whose bracket-matched span is valid JSON is still parsed
\* successfully.
C29_FailsOnlyAfterBothFallbacks ==
    /\ ParseFailed =>
          LET parts == ReplyParts(Val(llm_content).shape)
          IN  ~parts.whole /\ ~parts.fenced /\ ~parts.span
    /\ Parsed =>
          LET parts == ReplyParts(Val(llm_content).shape)
          IN  parts.whole \/ parts.fenced \/ parts.span

----------------------------------------------------------------------------
(* Order of the primary OCR attempts                                       *)

\* the passes over the whole document, without the top-right re-scan
MainPasses == SelectSeq(ocr_passes, LAMBDA p : p.image # "corner_processed")

\* C30: primary OCR attempts run in a fixed order and each retry runs only if
\* the text obtained so far has fewer than 20 non-blank characters: after the
\* default attempt on the pre-processed image, up to two alternate recognition
\* modes are tried on the same pre-processed image, and only then the
\* unprocessed image; the top-right re-scan runs last and its text is appended
\* to the text already obtained.
C30_AlternateModesThenUnprocessedImage ==
    ocr_passes # <<>> =>
        /\ MainPasses[1] = [image |-> "processed_image", config |-> "", nth |-> 1]
        /\ \A i \in 1..Len(MainPasses) :
              /\ MainPasses[i].config # "" => MainPasses[i].image = "processed_image"
              /\ MainPasses[i].image = "image" => i = Len(MainPasses)
        /\ Cardinality({i \in 1..Len(MainPasses) : MainPasses[i].config # ""}) <= 2
        /\ \A i \in 1..Len(ocr_passes) :
              ocr_passes[i].image = "corner_processed" => i = Len(ocr_passes)

----------------------------------------------------------------------------
(* What _clean_certificate_id changes (ext.py 96-122)                       *)

\* the characters lines 105-120 rewrite
Confusables == {"|", "é", "ö", "ï", "l", "I", "O"}
\* position i of s has a digit on both sides
FlankedByDigits(s, i) ==
    /\ 1 < i /\ i < Len(s)
    /\ IsDigit(CharAt(s, i - 1)) /\ IsDigit(CharAt(s, i + 1))
\* the first cleaning of a run of SpecClean has returned
Cleaned == entry = "_clean_certificate_id" /\ call_results # <<>>

\* C31: certificate-id cleanup removes all whitespace and otherwise changes a
\* character only when it is a confusable character flanked on both sides by
\* digits; a confusable character at the start or end of the id, or next to a
\* letter, is left unchanged, and no character is replaced globally.
C31_OnlyDigitFlankedConfusablesChange ==
    Cleaned =>
        LET given == Join(Split(call_args[1]), "")
            cleaned == call_results[1]
        IN  /\ Len(cleaned) = Len(given)
            /\ \A i \in 1..Len(given) :
                  CharAt(cleaned, i) # CharAt(given, i) =>
                      CharAt(given, i) \in Confusables /\ FlankedByDigits(given, i)

----------------------------------------------------------------------------
(* The fusion of the statistical score with the LLM opinion                 *)
(* (forensics.py 44-74)                                                      *)

\* analyze returned a result for which the LLM stage gave its opinion
ReturnedWithLlmOpinion == AnalyzeReturnedNormally /\ IsSome(llm_result)

\* C32: when the LLM opinion is present the fused forensics score is
\* 0.3 x statistical score + 0.7 x LLM risk score, so the LLM signal outweighs
\* the statistical one.
C32_FusedScoreFavoursLlm ==
    ReturnedWithLlmOpinion =>
        Val(combined_score) = Weighted(StatisticalScore, 30)
                              + Weighted(Val(llm_risk_score), 70)

\* the scores of the detection signals of a call that returned normally
SignalScores ==
    {Val(ela_score), Val(noise_score), Val(quality_score)}
    \cup (IF IsSome(llm_risk_score) THEN {Val(llm_risk_score)} ELSE {})

\* C33: if any single detection signal's score exceeds the 0.95 ceiling, the
\* fused manipulation score that analyze returns is at least 0.95, whatever the
\* other signals and the weights are.
C33_SignalAboveCeilingClampsScore ==
    (AnalyzeReturnedNormally /\ \E s \in SignalScores : s > Fx(95)) =>
        Val(forensics_data).manipulation_score >= Fx(95)

----------------------------------------------------------------------------
(* analyze without an LLM opinion (forensics.py 51-121, 195-228)            *)

\* the LLM stage is disabled, or ollama.generate raised, answered text that is
\* not JSON, or answered JSON lacking a required key
LlmStageGaveNothing ==
    \/ ~llm_enabled
    \/ /\ IsSome(llm_response)
       /\ Val(llm_response) \in {"raises", "non_json", "missing_key"}

\* the result of the statistics-only cascade for the detector scores of the call
StatisticsOnlyResult ==
    LET high == StrongIndicators(PrimaryThreshold(StatisticalScore),
                                 Val(ela_score), StatisticalScore)
    IN  [manipulation_score |-> Round2(StatisticalScore),
         is_high_risk |-> high,
         status |-> StatusOf(high, StatisticalScore, None),
         details |-> DetailsOf(FALSE, FALSE),
         llm_analysis |-> None, llm_risk_score |-> None, llm_confidence |-> None,
         llm_reasoning |-> None]

\* C34: when the forensics LLM stage is disabled, raises, returns non-JSON
\* text, or returns JSON lacking a required key, analyze behaves exactly as the
\* statistics-only cascade: the manipulation score is the statistical combined
\* score, is_high_risk is decided by the statistical scores alone, and all LLM
\* fields of the result are absent.
C34_FailedLlmStageIsStatisticsOnly ==
    (AnalyzeReturnedNormally /\ LlmStageGaveNothing) =>
        forensics_data = Some(StatisticsOnlyResult)

\* ollama.generate answered JSON without a required key for an image the
\* detectors score above zero, and analyze returned.
C34_Witness ==
    /\ AnalyzeReturnedNormally /\ llm_enabled
    /\ llm_response = Some("missing_key")
    /\ Val(forensics_data).manipulation_score > Fx(50)

----------------------------------------------------------------------------
(* The fusion of analyze as a function of the signal scores                 *)
(* (forensics.py 46-114), applied to two score vectors of which the second  *)
(* is the first with one signal raised                                      *)

\* lines 46, 65-74, 84-99 and 114-115: the score and the flag analyze returns
\* for detector scores ela, noise, quality and an Optional LLM opinion
Fusion(ela, noise, quality, llm) ==
    LET statistical == CombineScores(ela, noise, quality)
        combined == IF IsSome(llm) THEN LlmAdjust(statistical, Val(llm).risk)
                    ELSE statistical
        high == StrongIndicators(PrimaryThreshold(combined), ela, combined)
        override == /\ IsSome(llm)
                    /\ LlmOverrides(Some(Val(llm).conf), Some(Val(llm).risk))
    IN  [manipulation_score |-> Round2(combined),
         is_high_risk |-> (high \/ override)]

\* scores on both sides of the thresholds 0.5, 0.65, 0.75, 0.80 and 0.95
SignalValues == {0, Fx(50), Fx(70), Fx(81), Fx(96), Scale}
LlmOpinions ==
    {None} \cup {Some([risk |-> r, conf |-> c]) :
                    r \in SignalValues, c \in {Fx(50), Fx(90)}}
SignalVectors ==
    [ela : SignalValues, noise : {0, Fx(50), Scale}, quality : {0, Fx(50), Scale},
     llm : LlmOpinions]
\* the signals of a vector, by name
SignalOf(v, signal) ==
    CASE signal = "ela" -> v.ela
      [] signal = "noise" -> v.noise
      [] signal = "quality" -> v.quality
      [] signal = "llm_risk" -> IF IsSome(v.llm) THEN Val(v.llm).risk ELSE 0 - 1
Signals == {"ela", "noise", "quality", "llm_risk"}
\* v with one signal raised to x; the LLM confidence, and whether there is an
\* LLM opinion at all, stay as they are
Raise(v, signal, x) ==
    CASE signal = "ela" -> [v EXCEPT !.ela = x]
      [] signal = "noise" -> [v EXCEPT !.noise = x]
      [] signal = "quality" -> [v EXCEPT !.quality = x]
      [] signal = "llm_risk" -> [v EXCEPT !.llm = Some([risk |-> x, conf |-> Val(@).conf])]
\* the pairs of a vector and the same vector with one signal raised
RaisedPairs ==
    UNION {{<<lo, Raise(lo, signal, x)>> :
               x \in {y \in SignalValues :
                         /\ signal = "llm_risk" => IsSome(lo.llm)
                         /\ y > SignalOf(lo, signal)}} :
           lo \in SignalVectors, signal \in Signals}

FusionOf(v) == Fusion(v.ela, v.noise, v.quality, v.llm)

\* the fusion of the first vector
FusionCall ==
    /\ pc = "fusion_call"
    /\ call_results' = <<FusionOf(call_args[1])>>
    /\ pc' = "fusion_raised_call"
    /\ UNCHANGED call_args
    /\ UNCHANGED nonCallVars

\* and of the vector with one signal raised
FusionRaisedCall ==
    /\ pc = "fusion_raised_call"
    /\ call_results' = Append(call_results, FusionOf(call_args[2]))
    /\ pc' = "fusion_returned"
    /\ UNCHANGED call_args
    /\ UNCHANGED nonCallVars

InitFusion ==
    /\ entry = "fusion" /\ pc = "fusion_call" /\ IdleRun /\ NoTasks
    /\ call_args \in RaisedPairs
    /\ call_results = <<>>
NextFusion == FusionCall \/ FusionRaisedCall
SpecFusion == InitFusion /\ [][NextFusion]_vars

\* C35: the forensics fusion is monotonic in each input signal: raising any one
\* of the ELA, noise, quality or LLM risk scores while holding the others (and
\* the LLM confidence) fixed never lowers the fused score and never turns
\* is_high_risk from true to false.
C35_FusionIsMonotonic ==
    pc = "fusion_returned" =>
        /\ call_results[2].manipulation_score >= call_results[1].manipulation_score
        /\ call_results[1].is_high_risk => call_results[2].is_high_risk

\* Raising the LLM risk score alone raised the fused score and the flag.
C35_Witness ==
    /\ pc = "fusion_returned"
    /\ IsSome(call_args[1].llm)
    /\ Val(call_args[2].llm).risk > Val(call_args[1].llm).risk
    /\ call_results[2].manipulation_score > call_results[1].manipulation_score
    /\ ~call_results[1].is_high_risk /\ call_results[2].is_high_risk

----------------------------------------------------------------------------
(* The shape of every VerificationResult (service.py 30-84)                 *)

FailureMethods == {"validation_error", "url_error", "security_check", "failed"}
VerifyReturned == pc = "verify_returned" /\ IsSome(verification_result)
\* line 49: the loop is at its head after an attempt on a URL
LoopContinues == pc = "loop" /\ url_idx >= 1

----------------------------------------------------------------------------
(* The work of one verify call (service.py 45-84, scanner.py 20-40)         *)

\* C37: a single verify call does bounded work: it tries at most 2 candidate
\* URLs and, per URL, makes at most one fast fetch, at most two rendering
\* fetches (the second only when the first produced no screenshot) and at most
\* one screenshot OCR, for every behaviour of collaborators that return.
C37_BoundedWorkPerUrl ==
    /\ url_idx <= 2
    /\ url_calls.httpx <= 1
    /\ url_calls.playwright <= 2
    /\ url_calls.ocr <= 1
    /\ (pc = "fetch_browser" /\ url_calls.playwright >= 1) => ~Truthy(screenshot_path)

\* The second URL took the fast fetch, two rendering fetches and a screenshot
\* OCR, and verify returned.
C37_Witness ==
    /\ pc = "verify_returned" /\ url_idx = 2
    /\ url_calls = [httpx |-> 1, playwright |-> 2, ocr |-> 1]
    /\ httpx_calls = 2

----------------------------------------------------------------------------
(* The residue stage on a flat digital image (forensics.py 298-382)         *)

\* lines 298 and 325: the digital-origin branch, with the mean of the
\* small-block means at most 0.01
FlatDigitalImage ==
    /\ IsSome(ela_stats)
    /\ Val(ela_stats).large_median < Fx(400)
    /\ Val(ela_stats).small_mean <= Fx(1)
RiskTiers == {"Pass - Integrity Intact", "Warning - Minor Anomalies Detected",
              "High Risk - Possible Digital Manipulation Detected"}

\* C38: in the digital-origin branch of the statistical residue stage, when the
\* mean of the small-block means is at most 0.01 the coefficient-of-variation
\* sub-score is 0 and the stage still returns its weighted score and evidence
\* normally, so analyze reports a risk tier for such an image rather than an
\* analysis-error result.
C38_FlatDigitalImageGetsRiskTier ==
    (entry = "analyze" /\ pc = "analyze_returned" /\ FlatDigitalImage) =>
        /\ IsSome(ela_score)
        /\ fault = None
        /\ \E tier \in RiskTiers : StartsWith(Val(forensics_data).status, tier)

====
